---- MODULE Spec2Model ----
(***************************************************************************)
(* Model of the document-structure engine of article_translator:          *)
(*   - DependencyAnalyzer.analyze_dependencies / topological_sort         *)
(*   - FormulaValidator.validate_section and the formula extraction of    *)
(*     LaTeXParser it relies on, FormulaValidator.validate_document       *)
(*   - LaTeXParser.flatten_document and LaTeXParser.parse_document        *)
(*   - OpenAIClient.chat_completion                                       *)
(*   - CyrillicValidator: find, mark and extract Cyrillic fragments       *)
(*   - TranslationEngine.translate_document and phases 5 to 6 of          *)
(*     ArticleTranslator.translate.                                       *)
(* SpecSort drives the dependency grapher, SpecValidate the validator of  *)
(* a section, SpecDocument the validator of a document, SpecFlatten the   *)
(* flattener (SpecFlattenLive with fairness), SpecParse the parser,       *)
(* SpecClient the client, SpecCyrillic the Cyrillic check of one text,    *)
(* SpecTranslateDocument the translation loop and SpecRun a whole run     *)
(* from the translation loop to the exit code.                            *)
(***************************************************************************)
EXTENDS Integers, Sequences, FiniteSets, TLC

VARIABLES
    pc,             \* position of the pipeline run around the grapher
    sections,       \* document.sections: sequence of [id, dependencies]
    in_degree,      \* topological_sort: in_degree (defaultdict(int))
    graph,          \* topological_sort: graph (defaultdict(list))
    sort_i,         \* topological_sort: index of the build-graph loop
    queue,          \* topological_sort: deque of ids
    sorted_ids,     \* topological_sort: sorted_ids
    result,         \* list returned by topological_sort
    cycle_warning,  \* the "Circular dependencies detected" warning was printed
    vpc,            \* position of the run around the validator
    section,        \* the Section under validation: [content, translation]
    paragraph_log,  \* every record _validate_paragraph returned in the run
    validations,    \* list returned by validate_section
    revalidations,  \* list returned when the same Section is validated again
    fpc,            \* position of flatten_document
    preserve_comments,  \* LaTeXParser.preserve_comments
    files,          \* the .tex files on disk: name |-> text
    stack,          \* the _resolve_includes calls in progress, innermost last
    warnings,       \* file names of the "included file not found" warnings
    flattened,      \* what flatten_document returned
    ppc,            \* position of parse_document
    document,       \* the Document under construction
    dpc,            \* position of validate_document
    doc_sections,   \* validate_document: document.sections
    doc_i,          \* validate_document: index of the loop over the sections
    visited,        \* validate_document: indices handed to validate_section
    all_validations, \* validate_document: all_validations
    cpc,            \* position of chat_completion
    max_retries,    \* OpenAIClient.max_retries
    attempt,        \* chat_completion: the loop variable
    api_log,        \* the requests made and the sleeps taken, in order
    outcome,        \* what chat_completion returned or raised
    ypc,            \* position of the Cyrillic check of one translation
    cyr_text,       \* the translation under the Cyrillic check
    fragments,      \* what find_cyrillic_fragments returned
    marked_text,    \* what mark_cyrillic_fragments returned
    highlighted,    \* what extract_highlighted_fragments returned
    tpc,            \* position of translate
    config,         \* the configuration of the run
    run_sections,   \* translate: document.sections
    sorted_sections, \* translate: the ids of sorted_sections, in order
    run_i,          \* index of the loop over the sections in progress
    translations,   \* translate_document: translations
    llm_calls,      \* the calls of translate_section and fix_cyrillic, in order
    run_problematic, \* translate: problematic
    retry_queue,    \* _retry_problematic: keys of section_issues not yet visited
    exit_code       \* exit code of the TranslationResult

sortVars == <<pc, sections, in_degree, graph, sort_i, queue, sorted_ids,
              result, cycle_warning>>

valVars == <<vpc, section, paragraph_log, validations, revalidations>>

flatVars == <<fpc, preserve_comments, files, stack, warnings, flattened>>

parseVars == <<ppc, document>>

docVars == <<dpc, doc_sections, doc_i, visited, all_validations>>

clientVars == <<cpc, max_retries, attempt, api_log, outcome>>

cyrVars == <<ypc, cyr_text, fragments, marked_text, highlighted>>

pipeVars == <<tpc, config, run_sections, sorted_sections, run_i, translations,
              llm_calls, run_problematic, retry_queue, exit_code>>

\* the state of a translation run
runVars == <<clientVars, cyrVars, pipeVars>>

\* the state of the parser, of validate_document and of a translation run
restVars == <<flatVars, parseVars, docVars, runVars>>

vars == <<sortVars, valVars, restVars>>

(***************************************************************************)
(* Bounds                                                                  *)
(***************************************************************************)
MaxSections == 3    \* most headings in a document
MaxDeps == 3        \* most dependency ids listed in one LLM response
MaxSrcPieces == 2   \* most pieces a source text is put together from
MaxTgtPieces == 2   \* most pieces a rewritten text is put together from
MaxParsePieces == 3 \* most pieces a flattened content is put together from
MaxFlatPieces == 2  \* most pieces a main file is put together from
MaxDocSections == 3 \* most sections of a validated document
MaxRequests == 5    \* largest max_retries of a client
MaxCyrillicPieces == 3 \* most pieces a checked translation is put together from
MaxRunSections == 2 \* most headings of a translated document
MaxRunDeps == 2     \* most dependencies an analysis stores in a translated document
MaxRetries == 2     \* largest configured max_retries of a run

(***************************************************************************)
(* Generic helpers                                                         *)
(***************************************************************************)
ToSet(s) == {s[i] : i \in 1..Len(s)}

RECURSIVE SeqsUpTo(_, _)
SeqsUpTo(S, n) ==
    IF n = 0 THEN {<<>>}
    ELSE LET shorter == SeqsUpTo(S, n - 1)
         IN  shorter \cup {Append(q, x) : q \in {r \in shorter : Len(r) = n - 1}, x \in S}

\* every order in which a set can be enumerated
RECURSIVE Orders(_)
Orders(S) ==
    IF S = {} THEN {<<>>}
    ELSE UNION {{<<x>> \o q : q \in Orders(S \ {x})} : x \in S}

EmptyMap == [k \in {} |-> 0]

\* Optional values
None == <<>>
Some(v) == <<v>>

(***************************************************************************)
(* Section ids                                                             *)
(***************************************************************************)
\* f"sec_{len(sections)}" for the i-th heading (1-based here)
SecIds == <<"sec_0", "sec_1", "sec_2", "sec_3", "sec_4", "sec_5">>
MainId == "main"
\* an id the external analysis may return although no Section carries it
GhostId == "sec_x"

Section(id) == [id |-> id, dependencies |-> {}]

\* Section list as segmentation leaves it
ParsedSections(n) ==
    IF n = 0 THEN <<Section(MainId)>>
    ELSE [i \in 1..n |-> Section(SecIds[i])]

DocIds(secs) == {secs[i].id : i \in 1..Len(secs)}

(***************************************************************************)
(* analyze_dependencies                                                    *)
(***************************************************************************)
\* A response is either not parseable or a JSON object whose "dependencies"
\* entry is given here as the sequence of its (section_id, dependency_id)
\* list items in document order of the JSON text.
ResponseIds(secs) == DocIds(secs) \cup {GhostId}

Responses(secs) ==
    {[ok |-> FALSE, items |-> <<>>]} \cup
    {[ok |-> TRUE, items |-> it] :
        it \in SeqsUpTo(ResponseIds(secs) \X ResponseIds(secs), MaxDeps)}

\* data.get("dependencies", {}) as a dict of lists
ResponseDict(items) ==
    [k \in {items[i][1] : i \in 1..Len(items)} |->
        LET own == SelectSeq(items, LAMBDA p : p[1] = k)
        IN  [j \in 1..Len(own) |-> own[j][2]]]

_parse_dependencies(response) ==
    IF response.ok
    THEN LET dependencies == ResponseDict(response.items)
         IN  [section_id \in DOMAIN dependencies |-> ToSet(dependencies[section_id])]
    ELSE EmptyMap

InstallDependencies(secs, dependencies) ==
    [i \in 1..Len(secs) |->
        IF secs[i].id \in DOMAIN dependencies
        THEN [secs[i] EXCEPT !.dependencies = dependencies[secs[i].id]]
        ELSE secs[i]]

AnalyzeDependencies ==
    /\ pc = "parsed"
    /\ pc' = "analyzed"
    /\ IF Len(sections) <= 1
       THEN sections' = sections
       ELSE \E response \in Responses(sections) :
                sections' = InstallDependencies(sections, _parse_dependencies(response))
    /\ UNCHANGED <<in_degree, graph, sort_i, queue, sorted_ids, result, cycle_warning>>
    /\ UNCHANGED valVars
    /\ UNCHANGED restVars

(***************************************************************************)
(* topological_sort                                                        *)
(***************************************************************************)
\* defaultdict lookups
GraphGet(g, k) == IF k \in DOMAIN g THEN g[k] ELSE <<>>
DegreeGet(d, k) == IF k \in DOMAIN d THEN d[k] ELSE 0

MapPut(m, k, v) == [x \in DOMAIN m \cup {k} |-> IF x = k THEN v ELSE m[x]]

\* keys of in_degree in insertion order: first occurrence of each section id
RECURSIVE Dedup(_)
Dedup(s) ==
    IF s = <<>> THEN <<>>
    ELSE LET front == Dedup(SubSeq(s, 1, Len(s) - 1))
             x == s[Len(s)]
         IN  IF x \in ToSet(front) THEN front ELSE Append(front, x)

DegreeKeys(secs) == Dedup([i \in 1..Len(secs) |-> secs[i].id])

\* lines 142-144
InitInDegree ==
    /\ pc = "analyzed"
    /\ pc' = "build"
    /\ in_degree' = [k \in DocIds(sections) |-> 0]
    /\ graph' = EmptyMap
    /\ sort_i' = 1
    /\ UNCHANGED <<sections, queue, sorted_ids, result, cycle_warning>>
    /\ UNCHANGED valVars
    /\ UNCHANGED restVars

RECURSIVE AddEdgesNoDegree(_, _, _, _)
AddEdgesNoDegree(g, d, sid, order) ==
    IF order = <<>> THEN [g |-> g, d |-> d]
    ELSE LET dep_id == Head(order)
         IN  AddEdgesNoDegree(MapPut(g, dep_id, Append(GraphGet(g, dep_id), sid)),
                              d, sid, Tail(order))

AddEdgesFirstOnly(g, d, sid, order) ==
    IF order = <<>> THEN [g |-> g, d |-> d]
    ELSE [g |-> MapPut(g, Head(order), Append(GraphGet(g, Head(order)), sid)),
          d |-> MapPut(d, sid, DegreeGet(d, sid) + 1)]

\* inner loop of lines 147-150 for one section, its set enumerated in `order`
RECURSIVE AddEdges(_, _, _, _)
AddEdges(g, d, sid, order) ==
    IF order = <<>> THEN [g |-> g, d |-> d]
    ELSE LET dep_id == Head(order)
         IN  AddEdges(MapPut(g, dep_id, Append(GraphGet(g, dep_id), sid)),
                      MapPut(d, sid, DegreeGet(d, sid) + 1),
                      sid, Tail(order))

BuildGraph ==
    /\ pc = "build"
    /\ sort_i <= Len(sections)
    /\ \E order \in Orders(sections[sort_i].dependencies) :
          LET r == AddEdges(graph, in_degree, sections[sort_i].id, order)
          IN  /\ graph' = r.g
              /\ in_degree' = r.d
    /\ sort_i' = sort_i + 1
    /\ UNCHANGED <<pc, sections, queue, sorted_ids, result, cycle_warning>>
    /\ UNCHANGED valVars
    /\ UNCHANGED restVars

\* lines 153-156
ZeroDegree(d, keys) == SelectSeq(keys, LAMBDA sec_id : d[sec_id] = 0)

InitQueue ==
    /\ pc = "build"
    /\ sort_i > Len(sections)
    /\ pc' = "kahn"
    /\ queue' = ZeroDegree(in_degree, DegreeKeys(sections))
    /\ sorted_ids' = <<>>
    /\ UNCHANGED <<sections, in_degree, graph, sort_i, result, cycle_warning>>
    /\ UNCHANGED valVars
    /\ UNCHANGED restVars

\* lines 162-165 for the neighbours of the id just popped
RECURSIVE Relax(_, _, _)
Relax(d, q, neighbors) ==
    IF neighbors = <<>> THEN [d |-> d, q |-> q]
    ELSE LET neighbor_id == Head(neighbors)
             d2 == MapPut(d, neighbor_id, DegreeGet(d, neighbor_id) - 1)
         IN  Relax(d2,
                   IF d2[neighbor_id] = 0 THEN Append(q, neighbor_id) ELSE q,
                   Tail(neighbors))

\* one iteration of the while loop, lines 158-165
KahnStep ==
    /\ pc = "kahn"
    /\ queue # <<>>
    /\ LET current_id == Head(queue)
           r == Relax(in_degree, Tail(queue), GraphGet(graph, current_id))
       IN  /\ sorted_ids' = Append(sorted_ids, current_id)
           /\ in_degree' = r.d
           /\ queue' = r.q
    /\ UNCHANGED <<pc, sections, graph, sort_i, result, cycle_warning>>
    /\ UNCHANGED valVars
    /\ UNCHANGED restVars

\* line 168
CycleDetectedNoCheck(ids, secs) == FALSE
CycleDetected(ids, secs) == Len(ids) # Len(secs)

\* line 173: a dict comprehension, the last Section of an id wins
IdToSection(secs, id) ==
    secs[CHOOSE i \in 1..Len(secs) :
            /\ secs[i].id = id
            /\ \A j \in (i + 1)..Len(secs) : secs[j].id # id]

\* line 174
SortedSections(ids, secs) ==
    LET known == SelectSeq(ids, LAMBDA sec_id : sec_id \in DocIds(secs))
    IN  [k \in 1..Len(known) |-> IdToSection(secs, known[k])]

\* lines 167-174
FinishSort ==
    /\ pc = "kahn"
    /\ queue = <<>>
    /\ pc' = "sorted"
    /\ IF CycleDetected(sorted_ids, sections)
       THEN /\ cycle_warning' = TRUE
            /\ result' = sections
       ELSE /\ cycle_warning' = FALSE
            /\ result' = SortedSections(sorted_ids, sections)
    /\ UNCHANGED <<sections, in_degree, graph, sort_i, queue, sorted_ids>>
    /\ UNCHANGED valVars
    /\ UNCHANGED restVars

\* the validator before any Section is given to it
ValIdle ==
    /\ vpc = "idle"
    /\ section = [content |-> <<>>, translation |-> None]
    /\ paragraph_log = <<>>
    /\ validations = <<>>
    /\ revalidations = <<>>

\* the flattener before any file is given to it
FlatIdle ==
    /\ fpc = "idle"
    /\ preserve_comments = FALSE
    /\ files = EmptyMap
    /\ stack = <<>>
    /\ warnings = <<>>
    /\ flattened = None

\* the parser before any content is given to it
ParseIdle ==
    /\ ppc = "idle"
    /\ document = None

\* validate_document before any Document is given to it
DocIdle ==
    /\ dpc = "idle"
    /\ doc_sections = <<>>
    /\ doc_i = 0
    /\ visited = <<>>
    /\ all_validations = <<>>

\* the client before chat_completion is called
ClientIdle ==
    /\ cpc = "idle"
    /\ max_retries = 0
    /\ attempt = 0
    /\ api_log = <<>>
    /\ outcome = None

\* the Cyrillic validator before any translation is given to it
CyrIdle ==
    /\ ypc = "idle"
    /\ cyr_text = <<>>
    /\ fragments = <<>>
    /\ marked_text = None
    /\ highlighted = <<>>

\* translate before it is called
PipeIdle ==
    /\ tpc = "idle"
    /\ config = None
    /\ run_sections = <<>>
    /\ sorted_sections = <<>>
    /\ run_i = 0
    /\ translations = EmptyMap
    /\ llm_calls = <<>>
    /\ run_problematic = <<>>
    /\ retry_queue = <<>>
    /\ exit_code = None

\* no translation run has started
RunIdle ==
    /\ ClientIdle
    /\ CyrIdle
    /\ PipeIdle

InitSort ==
    /\ pc = "parsed"
    /\ \E n \in 0..MaxSections : sections = ParsedSections(n)
    /\ in_degree = EmptyMap
    /\ graph = EmptyMap
    /\ sort_i = 0
    /\ queue = <<>>
    /\ sorted_ids = <<>>
    /\ result = <<>>
    /\ cycle_warning = FALSE
    /\ ValIdle
    /\ FlatIdle
    /\ ParseIdle
    /\ DocIdle
    /\ RunIdle

NextSort ==
    \/ AnalyzeDependencies
    \/ InitInDegree
    \/ BuildGraph
    \/ InitQueue
    \/ KahnStep
    \/ FinishSort

SpecSort == InitSort /\ [][NextSort]_vars

(***************************************************************************)
(* Text: a str is a sequence of one-character strings                      *)
(***************************************************************************)
\* characters matched by \s
IsSpace(c) == c \in {" ", "\n", "\t", "\r"}

Min(S) == CHOOSE m \in S : \A k \in S : m <= k

\* least index >= from whose character is c, 0 if there is none
IndexFrom(t, c, from) ==
    IF \E j \in from..Len(t) : t[j] = c
    THEN Min({j \in from..Len(t) : t[j] = c})
    ELSE 0

\* the literal lit stands in t at index i
StartsWith(t, i, lit) ==
    /\ i >= 1
    /\ i + Len(lit) - 1 <= Len(t)
    /\ \A k \in 1..Len(lit) : t[i + k - 1] = lit[k]

RECURSIVE lstrip(_)
lstrip(t) == IF t # <<>> /\ IsSpace(Head(t)) THEN lstrip(Tail(t)) ELSE t

RECURSIVE rstrip(_)
rstrip(t) ==
    IF t # <<>> /\ IsSpace(t[Len(t)]) THEN rstrip(SubSeq(t, 1, Len(t) - 1)) ELSE t

\* str.strip()
strip(t) == rstrip(lstrip(t))

(***************************************************************************)
(* LaTeXParser: formula patterns                                           *)
(***************************************************************************)
NoMatch == [start |-> 0, stop |-> 0, cstart |-> 0, cstop |-> 0]

\* a match covers t[start..stop], its group 1 is t[cstart..cstop]
Match(start, stop, cstart, cstop) ==
    [start |-> start, stop |-> stop, cstart |-> cstart, cstop |-> cstop]

\* INLINE_PATTERN  \$([^\$]+)\$  tried at index i
InlineSpan(i, j) == IF j > i + 1 THEN Match(i, j, i + 1, j - 1) ELSE NoMatch

MatchInline(t, i) ==
    IF StartsWith(t, i, <<"$">>)
    THEN InlineSpan(i, IndexFrom(t, "$", i + 1))
    ELSE NoMatch

\* DISPLAY_PATTERNS[0]  \$\$([^\$]+)\$\$  tried at index i
DollarsSpan(t, i, j) ==
    IF j > i + 2 /\ StartsWith(t, j, <<"$", "$">>)
    THEN Match(i, j + 1, i + 2, j - 1)
    ELSE NoMatch

MatchDollars(t, i) ==
    IF StartsWith(t, i, <<"$", "$">>)
    THEN DollarsSpan(t, i, IndexFrom(t, "$", i + 2))
    ELSE NoMatch

\* DISPLAY_PATTERNS[1]  \\\[([^\]]+)\\\]  tried at index i: the group runs
\* up to the first "]" and gives back the backslash in front of it
BracketSpan(t, i, k) ==
    IF k >= i + 4 /\ t[k - 1] = "\\" THEN Match(i, k, i + 2, k - 2) ELSE NoMatch

MatchBracket(t, i) ==
    IF StartsWith(t, i, <<"\\", "[">>)
    THEN BracketSpan(t, i, IndexFrom(t, "]", i + 2))
    ELSE NoMatch

BeginLit == <<"\\", "b", "e", "g", "i", "n", "{">>
EndLit == <<"\\", "e", "n", "d", "{">>

Equation == <<"e", "q", "u", "a", "t", "i", "o", "n">>
Align == <<"a", "l", "i", "g", "n">>
Gather == <<"g", "a", "t", "h", "e", "r">>
Multline == <<"m", "u", "l", "t", "l", "i", "n", "e">>
Eqnarray == <<"e", "q", "n", "a", "r", "r", "a", "y">>

EnvNames == {"equation", "align", "gather", "multline", "eqnarray"}

EnvName ==
    [equation |-> Equation, align |-> Align, gather |-> Gather,
     multline |-> Multline, eqnarray |-> Eqnarray]

\* \\begin\{name  and  \\end\{name  as literals
EnvBegin == [n \in EnvNames |-> BeginLit \o EnvName[n]]
EnvEnd == [n \in EnvNames |-> EndLit \o EnvName[n]]

\* index of the closing brace of  \*? \}  standing at p, 0 if absent
TagClose(t, p) ==
    IF StartsWith(t, p, <<"*", "}">>) THEN p + 1
    ELSE IF StartsWith(t, p, <<"}">>) THEN p
    ELSE 0

\* index of the closing brace of  lit \*? \}  standing at i, 0 if absent
EnvTagEnd(t, i, lit) ==
    IF StartsWith(t, i, lit) THEN TagClose(t, i + Len(lit)) ELSE 0

\* DISPLAY_PATTERNS[2..6]  \\begin\{name\*?\}(.*?)\\end\{name\*?\}  with
\* re.DOTALL, tried at index i
\* least index >= from where the \end tag of the environment stands, 0 if none
EnvEndFrom(name, t, from) ==
    IF \E e \in from..Len(t) : EnvTagEnd(t, e, EnvEnd[name]) # 0
    THEN Min({e \in from..Len(t) : EnvTagEnd(t, e, EnvEnd[name]) # 0})
    ELSE 0

\* the match whose \begin tag closes at b and whose \end tag stands at e
EnvSpan(name, t, i, b, e) ==
    IF e = 0 THEN NoMatch
    ELSE Match(i, EnvTagEnd(t, e, EnvEnd[name]), b + 1, e - 1)

EnvBody(name, t, i, b) ==
    IF b = 0 THEN NoMatch
    ELSE EnvSpan(name, t, i, b, EnvEndFrom(name, t, b + 1))

MatchEnv(name, t, i) == EnvBody(name, t, i, EnvTagEnd(t, i, EnvBegin[name]))

\* the member of a set of one
The(S) == CHOOSE x \in S : TRUE

\* e if the closing brace at e leaves at least one character after the
\* opening brace at p, 0 if not
BraceAfter(p, e) == IF e > p + 1 THEN e ELSE 0

\* index of the closing brace of  \{([^}]+)\}  standing at p, 0 if it does
\* not match there
BracedEnd(t, p) ==
    IF StartsWith(t, p, <<"{">>)
    THEN The({BraceAfter(p, e) : e \in {IndexFrom(t, "}", p + 1)}})
    ELSE 0

\* the alternatives of  \\(alt|...)\{([^}]+)\}  that lead to a match at i
CommandAlts(alts, t, i) ==
    {k \in 1..Len(alts) :
        /\ StartsWith(t, i, <<"\\">> \o alts[k])
        /\ BracedEnd(t, i + 1 + Len(alts[k])) # 0}

\* the least of ks, 0 if ks is empty
FirstAlt(ks) == IF ks = {} THEN 0 ELSE Min(ks)

\* group 1 of the match at i, as an index into alts: the first alternative
\* that leads to a match, 0 if none does
CommandAlt(alts, t, i) == The({FirstAlt(ks) : ks \in {CommandAlts(alts, t, i)}})

\* the match whose opening brace stands at p and whose closing brace at e
CommandSpan(i, p, e) == Match(i, e, p + 1, e - 1)

CommandMatch(alts, t, i, k) ==
    IF k = 0 THEN NoMatch
    ELSE The({CommandSpan(i, i + 1 + Len(alts[k]), e) : e \in {BracedEnd(t, i + 1 + Len(alts[k]))}})

\* \\(alt|...)\{([^}]+)\}  tried at index i
MatchCommand(alts, t, i) ==
    The({CommandMatch(alts, t, i, k) : k \in {CommandAlt(alts, t, i)}})

SectionLit == <<"s", "e", "c", "t", "i", "o", "n">>
SubLit == <<"s", "u", "b">>

\* (section|subsection|subsubsection)
LevelNames == <<SectionLit, SubLit \o SectionLit, SubLit \o SubLit \o SectionLit>>

\* (input|include)
IncludeNames == << <<"i", "n", "p", "u", "t">>, <<"i", "n", "c", "l", "u", "d", "e">> >>

INLINE_PATTERN == "inline"
SECTION_PATTERN == "heading"
include_pattern == "include"
DISPLAY_PATTERNS ==
    <<"dollars", "bracket", "equation", "align", "gather", "multline", "eqnarray">>

MatchAt(pattern, t, i) ==
    IF t[i] = "$"
    THEN CASE pattern = "inline" -> MatchInline(t, i)
           [] pattern = "dollars" -> MatchDollars(t, i)
           [] OTHER -> NoMatch
    ELSE IF t[i] = "\\"
    THEN CASE pattern = "bracket" -> MatchBracket(t, i)
           [] pattern \in EnvNames -> MatchEnv(pattern, t, i)
           [] pattern = "heading" -> MatchCommand(LevelNames, t, i)
           [] pattern = "include" -> MatchCommand(IncludeNames, t, i)
           [] OTHER -> NoMatch
    ELSE NoMatch

\* the character every match of the pattern starts with
Lead(pattern) == IF pattern \in {"inline", "dollars"} THEN "$" ELSE "\\"

\* re.finditer(pattern, t): leftmost non-overlapping matches from index i on
RECURSIVE FindIter(_, _, _)

\* the scan after the attempt at index c gave m
ScanOn(pattern, t, c, m) ==
    IF m = NoMatch THEN FindIter(pattern, t, c + 1)
    ELSE <<m>> \o FindIter(pattern, t, m.stop + 1)

\* the scan from the candidate index c on, 0 when no candidate is left
ScanAt(pattern, t, c) ==
    IF c = 0 THEN <<>> ELSE ScanOn(pattern, t, c, MatchAt(pattern, t, c))

FindIter(pattern, t, i) == ScanAt(pattern, t, IndexFrom(t, Lead(pattern), i))

\* t from index i on without the spans of the matches ms
RECURSIVE CutSpans(_, _, _)
CutSpans(t, ms, i) ==
    IF ms = <<>> THEN SubSeq(t, i, Len(t))
    ELSE SubSeq(t, i, Head(ms).start - 1) \o CutSpans(t, Tail(ms), Head(ms).stop + 1)

\* re.sub(pattern, '', t)
RemoveMatches(pattern, t) == CutSpans(t, FindIter(pattern, t, 1), 1)

Formula(content, formula_type, position) ==
    [content |-> content, formula_type |-> formula_type, position |-> position]

\* the Formula of every match of one pattern; position is match.start()
MatchFormulas(ms, formula_type, t) ==
    [k \in 1..Len(ms) |->
        Formula(strip(SubSeq(t, ms[k].cstart, ms[k].cstop)),
                formula_type, ms[k].start - 1)]

FormulasOf(pattern, formula_type, t) ==
    MatchFormulas(FindIter(pattern, t, 1), formula_type, t)

\* list.sort(key=position): stable
RECURSIVE InsertByPosition(_, _)
InsertByPosition(sorted, f) ==
    IF sorted = <<>> THEN <<f>>
    ELSE IF sorted[Len(sorted)].position <= f.position THEN Append(sorted, f)
    ELSE Append(InsertByPosition(SubSeq(sorted, 1, Len(sorted) - 1), f),
                sorted[Len(sorted)])

RECURSIVE SortByPosition(_)
SortByPosition(fs) ==
    IF fs = <<>> THEN <<>>
    ELSE InsertByPosition(SortByPosition(SubSeq(fs, 1, Len(fs) - 1)), fs[Len(fs)])

RECURSIVE DisplayFormulas(_, _)
DisplayFormulas(t, n) ==
    IF n = 0 THEN <<>>
    ELSE DisplayFormulas(t, n - 1) \o FormulasOf(DISPLAY_PATTERNS[n], "display", t)

\* temp_text: the display patterns removed one after the other
RECURSIVE WithoutDisplay(_, _)
WithoutDisplay(t, n) ==
    IF n = 0 THEN t
    ELSE RemoveMatches(DISPLAY_PATTERNS[n], WithoutDisplay(t, n - 1))

\* formulas = display formulas, then the inline formulas of temp_text
_extract_formulas(text) ==
    SortByPosition(
        DisplayFormulas(text, Len(DISPLAY_PATTERNS))
        \o FormulasOf(INLINE_PATTERN, "inline",
                      WithoutDisplay(text, Len(DISPLAY_PATTERNS))))

Contents(fs) == [k \in 1..Len(fs) |-> fs[k].content]

ByType(formulas) ==
    [inline |-> Contents(SelectSeq(formulas, LAMBDA f : f.formula_type = "inline")),
     display |-> Contents(SelectSeq(formulas, LAMBDA f : f.formula_type = "display"))]

extract_formulas_from_paragraph(paragraph) == ByType(_extract_formulas(paragraph))

(***************************************************************************)
(* FormulaValidator                                                        *)
(***************************************************************************)
\* end of the match of  \n\s*\n  tried at index i, 0 if it does not match:
\* \s* runs to the end of the whitespace and gives back to the last newline
Max(S) == CHOOSE m \in S : \A k \in S : k <= m

\* the newlines t[j], j > i, with nothing but whitespace between i and j
ClosingNewlines(t, i) ==
    {j \in (i + 1)..Len(t) : t[j] = "\n" /\ \A k \in (i + 1)..j : IsSpace(t[k])}

BlankLineEnd(t, i) ==
    IF StartsWith(t, i, <<"\n">>) /\ ClosingNewlines(t, i) # {}
    THEN Max(ClosingNewlines(t, i))
    ELSE 0

\* re.split(r'\n\s*\n', t), scanning from index i, the open part starts at from
RECURSIVE SplitBlankLines(_, _, _)

\* the split after the separator tried at index i was found to end at e
SplitOn(t, i, from, e) ==
    IF e = 0 THEN SplitBlankLines(t, i + 1, from)
    ELSE <<SubSeq(t, from, i - 1)>> \o SplitBlankLines(t, e + 1, e + 1)

SplitBlankLines(t, i, from) ==
    IF i > Len(t) THEN <<SubSeq(t, from, Len(t))>>
    ELSE SplitOn(t, i, from, BlankLineEnd(t, i))

StripAll(paragraphs) == [k \in 1..Len(paragraphs) |-> strip(paragraphs[k])]

\* [p.strip() for p in paragraphs if p.strip()]
_split_paragraphs(text) ==
    SelectSeq(StripAll(SplitBlankLines(text, 1, 1)), LAMBDA q : q # <<>>)

\* re.sub(r'\s+', ' ', formula)
RECURSIVE CollapseSpace(_)
CollapseSpace(f) ==
    IF f = <<>> THEN <<>>
    ELSE IF IsSpace(Head(f)) THEN <<" ">> \o CollapseSpace(lstrip(f))
    ELSE <<Head(f)>> \o CollapseSpace(Tail(f))

_normalize_formula(formula) == strip(CollapseSpace(formula))

NormalizeAll(fs) == [k \in 1..Len(fs) |-> _normalize_formula(fs[k])]

\* set(list)
RECURSIVE PySet(_)
PySet(list) == IF list = <<>> THEN {} ELSE {Head(list)} \cup PySet(Tail(list))

\* list == list
RECURSIVE ListEq(_, _)
ListEq(a, b) ==
    IF a = <<>> \/ b = <<>> THEN a = <<>> /\ b = <<>>
    ELSE Head(a) = Head(b) /\ ListEq(Tail(a), Tail(b))

DiffPart(part, formulas, n, m) ==
    [part |-> part, formulas |-> formulas, n |-> n, m |-> m]

NoDiffersParts(src_display, tgt_display, i) == <<>>

\* the "Formula i+1 differs" parts of enumerate(zip(src_display, tgt_display))
RECURSIVE DiffersParts(_, _, _)
DiffersParts(src_display, tgt_display, i) ==
    IF i >= Len(src_display) \/ i >= Len(tgt_display) THEN <<>>
    ELSE (IF src_display[i + 1] # tgt_display[i + 1]
          THEN <<DiffPart("Formula differs", <<>>, i + 1, 0)>>
          ELSE <<>>)
         \o DiffersParts(src_display, tgt_display, i + 1)

\* diff_parts; missing_order and extra_order are the orders in which the two
\* difference sets are enumerated by join()
_generate_diff(src_inline, tgt_inline, src_display, tgt_display, missing_order, extra_order) ==
    (IF missing_order # <<>>
     THEN <<DiffPart("Missing inline formulas", missing_order, 0, 0)>>
     ELSE <<>>)
    \o
    (IF extra_order # <<>>
     THEN <<DiffPart("Extra inline formulas", extra_order, 0, 0)>>
     ELSE <<>>)
    \o
    (IF ~ListEq(src_display, tgt_display)
     THEN <<DiffPart("Display formulas mismatch", <<>>, 0, 0),
            DiffPart("Source", <<>>, Len(src_display), 0),
            DiffPart("Target", <<>>, Len(tgt_display), 0)>>
          \o DiffersParts(src_display, tgt_display, 0)
          \o (IF Len(src_display) # Len(tgt_display)
              THEN <<DiffPart("Count mismatch", <<>>,
                              Len(src_display), Len(tgt_display))>>
              ELSE <<>>)
     ELSE <<>>)

\* lines 106-109
SrcInline(src) == NormalizeAll(src.inline)
TgtInline(tgt) == NormalizeAll(tgt.inline)
SrcDisplay(src) == NormalizeAll(src.display)
TgtDisplayFromInline(tgt) == NormalizeAll(tgt.inline)
TgtDisplay(tgt) == NormalizeAll(tgt.display)

\* line 112
InlineMatchAsLists(src_inline, tgt_inline) == ListEq(src_inline, tgt_inline)
InlineMatch(src_inline, tgt_inline) == PySet(src_inline) = PySet(tgt_inline)

\* line 115
DisplayMatch(src_display, tgt_display) == ListEq(src_display, tgt_display)

\* a ParagraphValidation record
ParagraphValidation(index, src_inline, tgt_inline, src_display, tgt_display, inline_match, display_match, diff) ==
    [paragraph_index |-> index,
     source_inline |-> src_inline,
     target_inline |-> tgt_inline,
     source_display |-> src_display,
     target_display |-> tgt_display,
     inline_match |-> inline_match,
     display_match |-> display_match,
     diff |-> diff]

\* lines 117-131 once the two flags are known
ValidationRecords(index, src_inline, tgt_inline, src_display, tgt_display, inline_match, display_match) ==
    IF ~inline_match \/ ~display_match
    THEN {ParagraphValidation(index, src_inline, tgt_inline, src_display,
                              tgt_display, inline_match, display_match,
                              Some(_generate_diff(src_inline, tgt_inline, src_display,
                                                  tgt_display, mo, eo))) :
             mo \in Orders(PySet(src_inline) \ PySet(tgt_inline)),
             eo \in Orders(PySet(tgt_inline) \ PySet(src_inline))}
    ELSE {ParagraphValidation(index, src_inline, tgt_inline, src_display,
                              tgt_display, inline_match, display_match, None)}

\* lines 111-115 on the normalized lists
CompareNormalized(index, src_inline, tgt_inline, src_display, tgt_display) ==
    ValidationRecords(index, src_inline, tgt_inline, src_display, tgt_display,
                      InlineMatch(src_inline, tgt_inline),
                      DisplayMatch(src_display, tgt_display))

\* lines 105-109 on the formulas of the two paragraphs
CompareFormulas(index, src, tgt) ==
    CompareNormalized(index, SrcInline(src), TgtInline(tgt),
                      SrcDisplay(src), TgtDisplay(tgt))

\* the ParagraphValidation records _validate_paragraph can return: one for
\* every enumeration order of the two inline difference sets
_validate_paragraph(index, source, target) ==
    CompareFormulas(index, extract_formulas_from_paragraph(source),
                    extract_formulas_from_paragraph(target))

\* line 67
ProblematicBoth(validation) == ~validation.inline_match /\ ~validation.display_match
Problematic(validation) == ~validation.inline_match \/ ~validation.display_match

\* a run of a validation: `checked` lists every record _validate_paragraph
\* returned, `problematic` the records the run returns
ValidationRun(checked, problematic) ==
    [checked |-> checked, problematic |-> problematic]

\* lines 146-148
Unmatched(validation) == ~(validation.inline_match /\ validation.display_match)

_validate_as_whole(content, translation) ==
    {ValidationRun(<<v>>, IF Unmatched(v) THEN <<v>> ELSE <<>>) :
        v \in _validate_paragraph(0, content, translation)}

\* the loop of lines 61-68 from index i (0-based) on
RECURSIVE ValidatePairs(_, _, _)
ValidatePairs(source_paragraphs, target_paragraphs, i) ==
    IF i >= Len(source_paragraphs) \/ i >= Len(target_paragraphs)
    THEN {ValidationRun(<<>>, <<>>)}
    ELSE {ValidationRun(<<v>> \o r.checked,
                        IF Problematic(v) THEN <<v>> \o r.problematic
                        ELSE r.problematic) :
             v \in _validate_paragraph(i, source_paragraphs[i + 1],
                                       target_paragraphs[i + 1]),
             r \in ValidatePairs(source_paragraphs, target_paragraphs, i + 1)}

Abs(n) == IF n < 0 THEN -n ELSE n

\* line 55
AlignmentFailsByTwo(ns, nt) == Abs(ns - nt) > 2
AlignmentFails(ns, nt) == Abs(ns - nt) > 1

\* lines 54-70 once the two texts are split
ValidateParagraphs(content, translation, source_paragraphs, target_paragraphs) ==
    IF AlignmentFails(Len(source_paragraphs), Len(target_paragraphs))
    THEN _validate_as_whole(content, translation)
    ELSE ValidatePairs(source_paragraphs, target_paragraphs, 0)

validate_section(content, translation) ==
    ValidateParagraphs(content, translation,
                       _split_paragraphs(content), _split_paragraphs(translation))

(***************************************************************************)
(* Validator runs                                                          *)
(***************************************************************************)
\* the pieces texts are put together from: two inline formulas, two display
\* formulas, a blank line
Pieces ==
    << <<"$", "x", "$">>,
       <<"$", "y", "$">>,
       <<"$", "$", "a", "$", "$">>,
       <<"\\", "[", "b", "\\", "]">>,
       <<"\n", "\n">> >>

\* longer texts: three paragraphs, plain words, whitespace inside a formula,
\* environments, a blank line holding a space, a stray dollar, the same four
\* formulas in two orders, two paragraphs with a formula each, a sentence whose
\* display formula is rewritten
SampleTexts ==
    << <<"w", "\n", "\n", "w", "\n", "\n", "w">>,
       <<"$", "x", "$", "\n", "\n", "w", "\n", "\n", "$", "$", "a", "$", "$">>,
       <<"w", " ", "$", "x", "$", " ", "$", "$", "a", "$", "$">>,
       <<"$", "$", "a", "\n", " ", "b", "$", "$">>,
       <<"$", "$", "a", " ", "b", "$", "$">>,
       <<"\\", "b", "e", "g", "i", "n", "{", "e", "q", "u", "a", "t", "i", "o", "n", "}", "a", "\\", "e", "n", "d", "{", "e", "q", "u", "a", "t", "i", "o", "n", "}">>,
       <<"\\", "b", "e", "g", "i", "n", "{", "a", "l", "i", "g", "n", "*", "}", "b", "\\", "e", "n", "d", "{", "a", "l", "i", "g", "n", "*", "}">>,
       <<"w", "\n", " ", "\n", "w", " ", "$">>,
       <<"$", "x", "$", " ", "$", "y", "$", " ", "$", "$", "a", "$", "$", " ", "\\", "[", "b", "\\", "]">>,
       <<"$", "y", "$", " ", "$", "x", "$", " ", "\\", "[", "b", "\\", "]", " ", "$", "$", "a", "$", "$">>,
       <<"$", "x", "$", "\n", "\n", "$", "y", "$">>,
       <<"L", "e", "t", " ", "$", "x", "$", " ", "s", "a", "t", "i", "s", "f", "y", " ", "$", "$", "x", "=", "1", "$", "$", ".">>,
       <<"L", "e", "t", " ", "$", "x", "$", " ", "s", "a", "t", "i", "s", "f", "y", " ", "$", "$", "x", "=", "2", "$", "$", ".">> >>

RECURSIVE Concat(_)
Concat(ps) == IF ps = <<>> THEN <<>> ELSE Pieces[Head(ps)] \o Concat(Tail(ps))

Texts(n) == {Concat(ps) : ps \in SeqsUpTo(1..Len(Pieces), n)} \cup ToSet(SampleTexts)

\* the grapher before any document is given to it
SortIdle ==
    /\ pc = "idle"
    /\ sections = <<>>
    /\ in_degree = EmptyMap
    /\ graph = EmptyMap
    /\ sort_i = 0
    /\ queue = <<>>
    /\ sorted_ids = <<>>
    /\ result = <<>>
    /\ cycle_warning = FALSE

\* the rewriting stage stores a text in section.translation
RewriteSection ==
    /\ vpc = "parsed"
    /\ vpc' = "rewritten"
    /\ \E text \in Texts(MaxTgtPieces) :
          section' = [section EXCEPT !.translation = Some(text)]
    /\ UNCHANGED <<paragraph_log, validations, revalidations>>
    /\ UNCHANGED sortVars
    /\ UNCHANGED restVars

ValidateSection ==
    /\ vpc = "rewritten"
    /\ vpc' = "validated"
    /\ \E run \in validate_section(section.content, section.translation[1]) :
          /\ paragraph_log' = run.checked
          /\ validations' = run.problematic
    /\ UNCHANGED <<section, revalidations>>
    /\ UNCHANGED sortVars
    /\ UNCHANGED restVars

\* the program is run once more on the same section and the same rewritten
\* text: validate_section is called again, in a process whose sets of
\* strings have an iteration order of their own
ValidateAgain ==
    /\ vpc = "validated"
    /\ vpc' = "revalidated"
    /\ \E run \in validate_section(section.content, section.translation[1]) :
          revalidations' = run.problematic
    /\ UNCHANGED <<section, paragraph_log, validations>>
    /\ UNCHANGED sortVars
    /\ UNCHANGED restVars

InitValidate ==
    /\ SortIdle
    /\ vpc = "parsed"
    /\ \E text \in Texts(MaxSrcPieces) :
          section = [content |-> text, translation |-> None]
    /\ paragraph_log = <<>>
    /\ validations = <<>>
    /\ revalidations = <<>>
    /\ FlatIdle
    /\ ParseIdle
    /\ DocIdle
    /\ RunIdle

NextValidate ==
    \/ RewriteSection
    \/ ValidateSection
    \/ ValidateAgain

SpecValidate == InitValidate /\ [][NextValidate]_vars

(***************************************************************************)
(* FormulaValidator.validate_document                                      *)
(***************************************************************************)
\* the source and rewritten texts of the sections: two paragraphs with an
\* inline and a display formula, two paragraphs with another inline formula
DocTexts ==
    << <<"$", "x", "$", "\n", "\n", "$", "$", "a", "$", "$">>,
       <<"$", "y", "$", "\n", "\n", "w">> >>

\* section.translation: unset, the empty string, a text
Translations == {None, Some(<<>>)} \cup {Some(t) : t \in ToSet(DocTexts)}

DocSection(content, translation) == [content |-> content, translation |-> translation]

DocSections == {DocSection(c, t) : c \in ToSet(DocTexts), t \in Translations}

\* line 33: the truth value of section.translation
NotNone(translation) == translation # None
Truthy(translation) == translation # None /\ translation[1] # <<>>

\* a call of validate_section: the 0-based index of the section it was
\* given and the records it returned
Call(index, records) == [index |-> index, records |-> records]

\* lines 33-34
SkipSection ==
    /\ dpc = "loop"
    /\ doc_i < Len(doc_sections)
    /\ ~Truthy(doc_sections[doc_i + 1].translation)
    /\ doc_i' = doc_i + 1
    /\ UNCHANGED <<dpc, doc_sections, visited, all_validations>>
    /\ UNCHANGED <<sortVars, valVars, flatVars, parseVars, runVars>>

\* lines 36-37
ValidateNext ==
    /\ dpc = "loop"
    /\ doc_i < Len(doc_sections)
    /\ Truthy(doc_sections[doc_i + 1].translation)
    /\ \E run \in validate_section(doc_sections[doc_i + 1].content,
                                    doc_sections[doc_i + 1].translation[1]) :
          /\ visited' = Append(visited, Call(doc_i, run.problematic))
          /\ all_validations' = all_validations \o run.problematic
    /\ doc_i' = doc_i + 1
    /\ UNCHANGED <<dpc, doc_sections>>
    /\ UNCHANGED <<sortVars, valVars, flatVars, parseVars, runVars>>

\* line 39
ReturnValidations ==
    /\ dpc = "loop"
    /\ doc_i = Len(doc_sections)
    /\ dpc' = "returned"
    /\ UNCHANGED <<doc_sections, doc_i, visited, all_validations>>
    /\ UNCHANGED <<sortVars, valVars, flatVars, parseVars, runVars>>

\* line 30, on a document of up to MaxDocSections sections
InitDocument ==
    /\ SortIdle
    /\ ValIdle
    /\ FlatIdle
    /\ ParseIdle
    /\ dpc = "loop"
    /\ doc_sections \in SeqsUpTo(DocSections, MaxDocSections)
    /\ doc_i = 0
    /\ visited = <<>>
    /\ all_validations = <<>>
    /\ RunIdle

NextDocument ==
    \/ SkipSection
    \/ ValidateNext
    \/ ReturnValidations

SpecDocument == InitDocument /\ [][NextDocument]_vars

(***************************************************************************)
(* LaTeXParser.flatten_document                                            *)
(***************************************************************************)
\* line 63: the index of the line end at or after from, Len(t) + 1 on the
\* last line
LineEnd(t, from) == Min({j \in from..Len(t) : t[j] = "\n"} \cup {Len(t) + 1})

\* line 65: where  (?<!\\)%.*$  matches in the line t[from..e-1]: at its first
\* "%" that no backslash precedes; e if there is none
CommentStart(t, from, e) ==
    Min({j \in from..(e - 1) : t[j] = "%" /\ (j = from \/ t[j - 1] # "\\")} \cup {e})

\* lines 63-68 from the line that starts at from on: each line loses its
\* comment, the line ends stay
RECURSIVE StripFrom(_, _)
StripLine(t, from, e) ==
    SubSeq(t, from, CommentStart(t, from, e) - 1)
    \o (IF e > Len(t) THEN <<>> ELSE <<"\n">> \o StripFrom(t, e + 1))

StripFrom(t, from) == The({StripLine(t, from, e) : e \in {LineEnd(t, from)}})

KeepComments(content) == content
_remove_comments(content) == StripFrom(content, 1)

TexLit == <<".", "t", "e", "x">>

\* lines 79-80
TexName(filename) ==
    IF Len(filename) >= Len(TexLit)
       /\ SubSeq(filename, Len(filename) - Len(TexLit) + 1, Len(filename)) = TexLit
    THEN filename
    ELSE filename \o TexLit

\* the file names on disk: the main file and two more
MainFile == <<"m", "a", "i", "n", ".", "t", "e", "x">>
FileNames == <<MainFile, <<"a", ".", "t", "e", "x">>, <<"b", ".", "t", "e", "x">>>>

\* line 84
NeverExists(name) == FALSE
Exists(name) == name \in DOMAIN files

\* lines 49-54 and 88-92: the text of a file as it is read
ReadFile(name) ==
    IF preserve_comments THEN files[name] ELSE _remove_comments(files[name])

\* a call of _resolve_includes: re.sub has scanned content up to pos and has
\* put together out so far
Frame(content) == [content |-> content, pos |-> 1, out |-> <<>>]

\* the match of ms that starts first, none if ms is empty
LeftMost(ms) ==
    IF ms = {} THEN NoMatch ELSE CHOOSE m \in ms : \A n \in ms : m.start <= n.start

\* the leftmost match that starts at pos or later
SearchFrom(pattern, t, pos) ==
    The({LeftMost(ms) : ms \in {{MatchAt(pattern, t, i) : i \in pos..Len(t)} \ {NoMatch}}})

\* the next match re.sub comes to in the innermost call
NextInclude == SearchFrom(include_pattern, stack[Len(stack)].content, stack[Len(stack)].pos)

\* the file the match names
IncludedName(m) == TexName(SubSeq(stack[Len(stack)].content, m.cstart, m.cstop))

\* the innermost call after re.sub has gone past the match m, which it
\* replaces by replacement
GoPast(m, replacement) ==
    [stack EXCEPT ![Len(stack)] =
        [@ EXCEPT !.out = @ \o SubSeq(stack[Len(stack)].content, stack[Len(stack)].pos, m.start - 1) \o replacement,
                  !.pos = m.stop + 1]]

\* the calls the model follows: one more than there are files; deeper, a
\* file is being resolved inside itself and the calls repeat without end
\* (the interpreter ends them with RecursionError)
RecursionLimit == Len(FileNames) + 1

\* lines 46-57
StartFlatten ==
    /\ fpc = "start"
    /\ fpc' = "resolving"
    /\ stack' = <<Frame(ReadFile(MainFile))>>
    /\ UNCHANGED <<preserve_comments, files, warnings, flattened>>
    /\ UNCHANGED <<sortVars, valVars, parseVars, docVars, runVars>>

\* lines 76-86: the named file does not exist
DropDirective(m) == <<>>
KeepDirective(m) == SubSeq(stack[Len(stack)].content, m.start, m.stop)

IncludeMissing ==
    /\ fpc = "resolving"
    /\ \E m \in {NextInclude} :
          /\ m # NoMatch
          /\ ~Exists(IncludedName(m))
          /\ warnings' = Append(warnings, IncludedName(m))
          /\ stack' = GoPast(m, KeepDirective(m))
    /\ UNCHANGED <<fpc, preserve_comments, files, flattened>>
    /\ UNCHANGED <<sortVars, valVars, parseVars, docVars, runVars>>

\* lines 76-95: the named file is read and its own directives are resolved
IncludeFile ==
    /\ fpc = "resolving"
    /\ Len(stack) < RecursionLimit
    /\ \E m \in {NextInclude} :
          /\ m # NoMatch
          /\ Exists(IncludedName(m))
          /\ stack' = Append(GoPast(m, <<>>), Frame(ReadFile(IncludedName(m))))
    /\ UNCHANGED <<fpc, preserve_comments, files, warnings, flattened>>
    /\ UNCHANGED <<sortVars, valVars, parseVars, docVars, runVars>>

\* line 95 at the deepest call the model follows
RecursionOverflow ==
    /\ fpc = "resolving"
    /\ Len(stack) >= RecursionLimit
    /\ \E m \in {NextInclude} :
          /\ m # NoMatch
          /\ Exists(IncludedName(m))
    /\ fpc' = "overflow"
    /\ UNCHANGED <<preserve_comments, files, stack, warnings, flattened>>
    /\ UNCHANGED <<sortVars, valVars, parseVars, docVars, runVars>>

\* what the innermost call returns when no match is left
Resolved ==
    stack[Len(stack)].out
    \o SubSeq(stack[Len(stack)].content, stack[Len(stack)].pos, Len(stack[Len(stack)].content))

\* lines 97, 99: the innermost call returns to replace_include
ReturnIncluded ==
    /\ fpc = "resolving"
    /\ Len(stack) > 1
    /\ NextInclude = NoMatch
    /\ stack' = [SubSeq(stack, 1, Len(stack) - 1) EXCEPT ![Len(stack) - 1].out = @ \o Resolved]
    /\ UNCHANGED <<fpc, preserve_comments, files, warnings, flattened>>
    /\ UNCHANGED <<sortVars, valVars, parseVars, docVars, runVars>>

\* lines 99, 57-59: the outermost call returns to flatten_document
ReturnFlattened ==
    /\ fpc = "resolving"
    /\ Len(stack) = 1
    /\ NextInclude = NoMatch
    /\ fpc' = "returned"
    /\ flattened' = Some(Resolved)
    /\ stack' = <<>>
    /\ UNCHANGED <<preserve_comments, files, warnings>>
    /\ UNCHANGED <<sortVars, valVars, parseVars, docVars, runVars>>

RECURSIVE ConcatOf(_, _)
ConcatOf(pieces, ps) ==
    IF ps = <<>> THEN <<>> ELSE pieces[Head(ps)] \o ConcatOf(pieces, Tail(ps))

\* the pieces the main file is put together from: three directives (no file
\* c.tex exists), a word, a comment sign, a line end
FlatPieces ==
    << <<"\\", "i", "n", "p", "u", "t", "{", "a", "}">>,
       <<"\\", "i", "n", "c", "l", "u", "d", "e", "{", "b", ".", "t", "e", "x", "}">>,
       <<"\\", "i", "n", "p", "u", "t", "{", "c", "}">>,
       <<"w">>,
       <<"%">>,
       <<"\n">> >>

\* longer main files
FlatSamples ==
    << <<"\\", "i", "n", "p", "u", "t", "{", "a", "}", "w", "\n", "%", "\\", "i", "n", "p", "u", "t", "{", "b", "}", "\n", "\\", "i", "n", "p", "u", "t", "{", "c", "}", "\\", "i", "n", "p", "u", "t", "{", "a", "}">> >>

\* the texts of the two other files: plain, with a comment, including the
\* other file, including itself, a directive inside a comment
IncludedTexts ==
    << <<"x">>,
       <<"x", "%", "y", "\n", "z">>,
       <<"\\", "i", "n", "p", "u", "t", "{", "b", "}", "v">>,
       <<"\\", "i", "n", "p", "u", "t", "{", "a", "}">>,
       <<"%", "\\", "i", "n", "p", "u", "t", "{", "b", "}", "\n", "\\", "%", "u">> >>

MainTexts(n) ==
    {ConcatOf(FlatPieces, ps) : ps \in SeqsUpTo(1..Len(FlatPieces), n)}
    \cup ToSet(FlatSamples)

\* the directories flatten_document can meet: the main file and any of the
\* two other files
Disks(n) ==
    {[name \in {MainFile} \cup others |->
         IF name = MainFile THEN main ELSE IncludedTexts[pick[name]]] :
        main \in MainTexts(n),
        others \in SUBSET {FileNames[2], FileNames[3]},
        pick \in [{FileNames[2], FileNames[3]} -> 1..Len(IncludedTexts)]}

InitFlatten ==
    /\ SortIdle
    /\ ValIdle
    /\ ParseIdle
    /\ DocIdle
    /\ fpc = "start"
    /\ preserve_comments \in BOOLEAN
    /\ files \in Disks(MaxFlatPieces)
    /\ stack = <<>>
    /\ warnings = <<>>
    /\ flattened = None
    /\ RunIdle

NextFlatten ==
    \/ StartFlatten
    \/ IncludeMissing
    \/ IncludeFile
    \/ RecursionOverflow
    \/ ReturnIncluded
    \/ ReturnFlattened

SpecFlatten == InitFlatten /\ [][NextFlatten]_vars

\* every call that can go on does go on
SpecFlattenLive == SpecFlatten /\ WF_vars(NextFlatten)

(***************************************************************************)
(* LaTeXParser.parse_document                                              *)
(***************************************************************************)
\* \\begin\{document\}  and  \\end\{document\}
BeginDocument == BeginLit \o <<"d", "o", "c", "u", "m", "e", "n", "t", "}">>
EndDocument == EndLit \o <<"d", "o", "c", "u", "m", "e", "n", "t", "}">>

\* least index >= from at which the literal stands, 0 if there is none
FindLit(t, lit, from) ==
    IF \E i \in from..Len(t) : StartsWith(t, i, lit)
    THEN Min({i \in from..Len(t) : StartsWith(t, i, lit)})
    ELSE 0

\* lines 114-115: group 1 of  ^(.*?)\\begin\{document\}  or ""
PreambleBefore(content, b) == IF b = 0 THEN <<>> ELSE SubSeq(content, 1, b - 1)

Preamble(content) == PreambleBefore(content, FindLit(content, BeginDocument, 1))

\* lines 118-123: group 1 of  \\begin\{document\}(.*?)\\end\{document\}  or
\* the content itself
MainBetween(content, b, e) ==
    IF e = 0 THEN content ELSE SubSeq(content, b + Len(BeginDocument), e - 1)

MainAfter(content, b) ==
    IF b = 0 THEN content
    ELSE MainBetween(content, b, FindLit(content, EndDocument, b + Len(BeginDocument)))

MainContent(content) == MainAfter(content, FindLit(content, BeginDocument, 1))

\* lines 126-127: group 1 of  \\end\{document\}(.*)$  or ""
PostambleAfter(content, e) ==
    IF e = 0 THEN <<>> ELSE SubSeq(content, e + Len(EndDocument), Len(content))

Postamble(content) == PostambleAfter(content, FindLit(content, EndDocument, 1))

\* Document(content, sections, preamble, postamble)
Document(content, secs, preamble, postamble) ==
    [content |-> content, sections |-> secs, preamble |-> preamble,
     postamble |-> postamble]

\* lines 113-127
ExtractBody ==
    /\ fpc = "returned"
    /\ ppc = "start"
    /\ ppc' = "split"
    /\ document' = Some(Document(MainContent(flattened[1]), <<>>,
                                 Preamble(flattened[1]), Postamble(flattened[1])))
    /\ UNCHANGED <<sortVars, valVars, flatVars, docVars, runVars>>

\* a Section as _parse_sections constructs it
ParsedSection(id, title, content, level, formulas) ==
    [id |-> id, title |-> title, content |-> content, level |-> level,
     formulas |-> formulas, dependencies |-> {}, translation |-> None]

WithFormulas(id, title, content, level) ==
    ParsedSection(id, title, content, level, _extract_formulas(content))

MainTitle == <<"M", "a", "i", "n", " ", "C", "o", "n", "t", "e", "n", "t">>

\* line 162: {"section": 1, "subsection": 2, "subsubsection": 3}, by the
\* alternative of the pattern that matched
LevelOfFlat == <<1, 1, 1>>
LevelOf == <<1, 2, 3>>

\* lines 165-167
SectionContent(content, section_matches, i) ==
    strip(SubSeq(content, section_matches[i].stop + 1,
                 IF i + 1 <= Len(section_matches)
                 THEN section_matches[i + 1].start - 1
                 ELSE Len(content)))

\* lines 160-180
HeadingSections(content, section_matches) ==
    [i \in 1..Len(section_matches) |->
        WithFormulas(SecIds[i],
                     SubSeq(content, section_matches[i].cstart, section_matches[i].cstop),
                     SectionContent(content, section_matches, i),
                     LevelOf[CommandAlt(LevelNames, content, section_matches[i].start)])]

SectionsOfHeadings(content, section_matches) ==
    HeadingSections(content, section_matches)

\* lines 147-182
SectionsOf(content, section_matches) ==
    IF section_matches = <<>>
    THEN <<WithFormulas(MainId, MainTitle, content, 0)>>
    ELSE HeadingSections(content, section_matches)

_parse_sections(content) == SectionsOf(content, FindIter(SECTION_PATTERN, content, 1))

\* lines 129-138
ParseSections ==
    /\ ppc = "split"
    /\ ppc' = "parsed"
    /\ document' = Some([document[1] EXCEPT !.sections = _parse_sections(document[1].content)])
    /\ UNCHANGED <<sortVars, valVars, flatVars, docVars, runVars>>

\* the pieces flattened contents are put together from: the two body markers,
\* a heading of each depth, a word, an inline and a display formula
ParsePieces ==
    << <<"\\", "b", "e", "g", "i", "n", "{", "d", "o", "c", "u", "m", "e", "n", "t", "}">>,
       <<"\\", "e", "n", "d", "{", "d", "o", "c", "u", "m", "e", "n", "t", "}">>,
       <<"\\", "s", "e", "c", "t", "i", "o", "n", "{", "s", "}">>,
       <<"\\", "s", "u", "b", "s", "e", "c", "t", "i", "o", "n", "{", "t", "}">>,
       <<"\\", "s", "u", "b", "s", "u", "b", "s", "e", "c", "t", "i", "o", "n", "{", "u", "}">>,
       <<" ", "w", " ">>,
       <<"$", "x", "$">>,
       <<"$", "$", "a", "$", "$">> >>

\* longer contents: a whole document, the markers in reverse order
ParseSamples ==
    << <<"p", "\\", "b", "e", "g", "i", "n", "{", "d", "o", "c", "u", "m", "e", "n", "t", "}", "\\", "s", "e", "c", "t", "i", "o", "n", "{", "s", "}", " ", "w", " ", "$", "$", "a", "$", "$", " ", "$", "x", "$", "\\", "s", "u", "b", "s", "e", "c", "t", "i", "o", "n", "{", "t", "}", "\\", "e", "n", "d", "{", "d", "o", "c", "u", "m", "e", "n", "t", "}", "q">>,
       <<"\\", "e", "n", "d", "{", "d", "o", "c", "u", "m", "e", "n", "t", "}", "w", "\\", "b", "e", "g", "i", "n", "{", "d", "o", "c", "u", "m", "e", "n", "t", "}">>,
       <<"\\", "b", "e", "g", "i", "n", "{", "d", "o", "c", "u", "m", "e", "n", "t", "}", "w", "\\", "e", "n", "d", "{", "d", "o", "c", "u", "m", "e", "n", "t", "}", "\\", "e", "n", "d", "{", "d", "o", "c", "u", "m", "e", "n", "t", "}">> >>

ParseTexts(n) ==
    {ConcatOf(ParsePieces, ps) : ps \in SeqsUpTo(1..Len(ParsePieces), n)}
    \cup ToSet(ParseSamples)

\* flatten_document has just returned a content to parse_document
InitParse ==
    /\ SortIdle
    /\ ValIdle
    /\ DocIdle
    /\ fpc = "returned"
    /\ preserve_comments \in BOOLEAN
    /\ files = EmptyMap
    /\ stack = <<>>
    /\ warnings = <<>>
    /\ \E text \in ParseTexts(MaxParsePieces) : flattened = Some(text)
    /\ ppc = "start"
    /\ document = None
    /\ RunIdle

NextParse ==
    \/ ExtractBody
    \/ ParseSections

SpecParse == InitParse /\ [][NextParse]_vars

(***************************************************************************)
(* OpenAIClient.chat_completion                                            *)
(***************************************************************************)
\* response.choices[0].message.content of a request that succeeded
ApiContents == {"content_a", "content_b"}

\* the OpenAIError a failed request raises
ApiErrors == {"timeout", "rate_limit"}

Exhausted == "Failed to get response after retries"

\* the entries of api_log
Created(content) == [call |-> "create", ok |-> TRUE, value |-> content]
Failed(e) == [call |-> "create", ok |-> FALSE, value |-> e]
Slept(seconds) == [call |-> "sleep", seconds |-> seconds]

Returns(content) == [raised |-> FALSE, value |-> content]
Raises(e) == [raised |-> TRUE, value |-> e]

\* line 101: wait_time = 2 ** attempt
WaitTimeLinear(k) == 2 * k
WaitTime(k) == 2 ^ k

\* lines 87-94: the request of this iteration succeeds
CreateReturns ==
    /\ cpc = "loop"
    /\ attempt < max_retries
    /\ cpc' = "returned"
    /\ \E content \in ApiContents :
          /\ api_log' = Append(api_log, Created(content))
          /\ outcome' = Some(Returns(content))
    /\ UNCHANGED <<max_retries, attempt>>
    /\ UNCHANGED <<sortVars, valVars, flatVars, parseVars, docVars, cyrVars, pipeVars>>

\* lines 96-104: the request fails and is not the last one
CreateFails ==
    /\ cpc = "loop"
    /\ attempt < max_retries
    /\ attempt # max_retries - 1
    /\ \E e \in ApiErrors :
          api_log' = api_log \o <<Failed(e), Slept(WaitTime(attempt))>>
    /\ attempt' = attempt + 1
    /\ UNCHANGED <<cpc, max_retries, outcome>>
    /\ UNCHANGED <<sortVars, valVars, flatVars, parseVars, docVars, cyrVars, pipeVars>>

\* lines 96-98: the last request fails
LastCreateFails ==
    /\ cpc = "loop"
    /\ attempt < max_retries
    /\ attempt = max_retries - 1
    /\ cpc' = "raised"
    /\ \E e \in ApiErrors :
          /\ api_log' = Append(api_log, Failed(e))
          /\ outcome' = Some(Raises(e))
    /\ UNCHANGED <<max_retries, attempt>>
    /\ UNCHANGED <<sortVars, valVars, flatVars, parseVars, docVars, cyrVars, pipeVars>>

\* line 106: range(self.max_retries) is empty
NoRequestAllowed ==
    /\ cpc = "loop"
    /\ attempt >= max_retries
    /\ cpc' = "raised"
    /\ outcome' = Some(Raises(Exhausted))
    /\ UNCHANGED <<max_retries, attempt, api_log>>
    /\ UNCHANGED <<sortVars, valVars, flatVars, parseVars, docVars, cyrVars, pipeVars>>

\* chat_completion is called on a client constructed with max_retries
InitClient ==
    /\ SortIdle
    /\ ValIdle
    /\ FlatIdle
    /\ ParseIdle
    /\ DocIdle
    /\ cpc = "loop"
    /\ max_retries \in 0..MaxRequests
    /\ attempt = 0
    /\ api_log = <<>>
    /\ outcome = None
    /\ CyrIdle
    /\ PipeIdle

NextClient ==
    \/ CreateReturns
    \/ CreateFails
    \/ LastCreateFails
    \/ NoRequestAllowed

SpecClient == InitClient /\ [][NextClient]_vars

(***************************************************************************)
(* CyrillicValidator                                                       *)
(***************************************************************************)
\* the characters of [А-Яа-яЁё], each written by the name of the letter
CyrillicLetters == {"ya", "zhe", "Yo"}

IsCyrillic(c) == c \in CyrillicLetters

\* t from index i on with the span of every match in ms replaced by by
RECURSIVE ReplaceSpans(_, _, _, _)
ReplaceSpans(t, ms, i, by) ==
    IF ms = <<>> THEN SubSeq(t, i, Len(t))
    ELSE SubSeq(t, i, Head(ms).start - 1) \o by
         \o ReplaceSpans(t, Tail(ms), Head(ms).stop + 1, by)

\* re.sub(pattern, ' ', t)
BlankMatches(pattern, t) == ReplaceSpans(t, FindIter(pattern, t, 1), 1, <<" ">>)

\* lines 98-99: the display patterns blanked one after the other
RECURSIVE BlankDisplay(_, _)
BlankDisplay(t, n) ==
    IF n = 0 THEN t
    ELSE BlankMatches(DISPLAY_PATTERNS[n], BlankDisplay(t, n - 1))

\* lines 97-104
_remove_formulas(text) ==
    BlankMatches(INLINE_PATTERN, BlankDisplay(text, Len(DISPLAY_PATTERNS)))

CyrillicFragment(text, start_pos, end_pos, context) ==
    [text |-> text, start_pos |-> start_pos, end_pos |-> end_pos,
     context |-> context]

\* the index of the last letter of the run of Cyrillic letters that starts
\* at index i
RunEnd(t, i) == Max({j \in i..Len(t) : \A k \in i..j : IsCyrillic(t[k])})

\* lines 72-84: the fragment of the match whose span is [start, end)
FragmentOf(t, start, end, context_chars) ==
    CyrillicFragment(SubSeq(t, start + 1, end), start, end,
                     SubSeq(t, Max({0, start - context_chars}) + 1,
                            Min({Len(t), end + context_chars})))

\* CYRILLIC_PATTERN.finditer(t) from index i on
RECURSIVE CyrillicFrom(_, _, _)
CyrillicRun(t, i, e, context_chars) ==
    <<FragmentOf(t, i - 1, e, context_chars)>> \o CyrillicFrom(t, e + 1, context_chars)

CyrillicFrom(t, i, context_chars) ==
    IF i > Len(t) THEN <<>>
    ELSE IF IsCyrillic(t[i]) THEN CyrillicRun(t, i, RunEnd(t, i), context_chars)
    ELSE CyrillicFrom(t, i + 1, context_chars)

\* lines 65-86, exclude_formulas=True
find_cyrillic_fragments(text, context_chars) ==
    CyrillicFrom(_remove_formulas(text), 1, context_chars)

\* line 130: fragments.sort(key=start_pos, reverse=True), stable
RECURSIVE InsertByStart(_, _)
InsertByStart(sorted, f) ==
    IF sorted = <<>> THEN <<f>>
    ELSE IF sorted[Len(sorted)].start_pos >= f.start_pos THEN Append(sorted, f)
    ELSE Append(InsertByStart(SubSeq(sorted, 1, Len(sorted) - 1), f),
                sorted[Len(sorted)])

RECURSIVE SortByStartReverse(_)
SortByStartReverse(fs) ==
    IF fs = <<>> THEN <<>>
    ELSE InsertByStart(SortByStartReverse(SubSeq(fs, 1, Len(fs) - 1)), fs[Len(fs)])

marker_start == <<">", ">", ">">>
marker_end == <<"<", "<", "<">>

\* lines 134-140
MarkOne(marked_t, f) ==
    SubSeq(marked_t, 1, f.start_pos) \o marker_start
    \o SubSeq(marked_t, f.start_pos + 1, f.end_pos) \o marker_end
    \o SubSeq(marked_t, f.end_pos + 1, Len(marked_t))

RECURSIVE MarkAll(_, _)
MarkAll(marked_t, fs) ==
    IF fs = <<>> THEN marked_t ELSE MarkAll(MarkOne(marked_t, Head(fs)), Tail(fs))

\* lines 124-142: the marked text (the count is len(fragments))
mark_cyrillic_fragments(text) ==
    MarkAll(text, SortByStartReverse(find_cyrillic_fragments(text, 50)))

\* lines 160-162: re.findall(r'>>>(.*?)<<<', t, re.DOTALL) from index i on
RECURSIVE FindAllMarked(_, _)
MarkedUpTo(t, s, e) ==
    IF e = 0 THEN <<>>
    ELSE <<SubSeq(t, s + Len(marker_start), e - 1)>>
         \o FindAllMarked(t, e + Len(marker_end))

MarkedFrom(t, s) ==
    IF s = 0 THEN <<>>
    ELSE MarkedUpTo(t, s, FindLit(t, marker_end, s + Len(marker_start)))

FindAllMarked(t, i) == MarkedFrom(t, FindLit(t, marker_start, i))

extract_highlighted_fragments(text) == FindAllMarked(text, 1)

\* main.py lines 426-431: validate_section, context_chars=100
ValidateTranslation ==
    /\ ypc = "start"
    /\ \E found \in {find_cyrillic_fragments(cyr_text, 100)} :
          /\ fragments' = found
          /\ ypc' = IF found = <<>> THEN "valid" ELSE "invalid"
    /\ UNCHANGED <<cyr_text, marked_text, highlighted>>
    /\ UNCHANGED <<sortVars, valVars, flatVars, parseVars, docVars, clientVars, pipeVars>>

\* main.py line 441
MarkFragments ==
    /\ ypc = "invalid"
    /\ ypc' = "marked"
    /\ marked_text' = Some(mark_cyrillic_fragments(cyr_text))
    /\ UNCHANGED <<cyr_text, fragments, highlighted>>
    /\ UNCHANGED <<sortVars, valVars, flatVars, parseVars, docVars, clientVars, pipeVars>>

\* main.py line 442
ExtractFragments ==
    /\ ypc = "marked"
    /\ ypc' = "extracted"
    /\ highlighted' = extract_highlighted_fragments(marked_text[1])
    /\ UNCHANGED <<cyr_text, fragments, marked_text>>
    /\ UNCHANGED <<sortVars, valVars, flatVars, parseVars, docVars, clientVars, pipeVars>>

\* the pieces translations are put together from: a Cyrillic word, a Latin
\* word, a blank, a Cyrillic letter, an inline and a display formula, an
\* inline formula that holds a Cyrillic letter
CyrillicPieces ==
    << <<"ya", "zhe">>,
       <<"w">>,
       <<" ">>,
       <<"Yo">>,
       <<"$", "x", "$">>,
       <<"$", "$", "a", "$", "$">>,
       <<"$", "ya", "$">> >>

CyrillicTexts(n) ==
    {ConcatOf(CyrillicPieces, ps) : ps \in SeqsUpTo(1..Len(CyrillicPieces), n)}

\* a translation is handed to the Cyrillic check
InitCyrillic ==
    /\ SortIdle
    /\ ValIdle
    /\ FlatIdle
    /\ ParseIdle
    /\ DocIdle
    /\ ClientIdle
    /\ ypc = "start"
    /\ cyr_text \in CyrillicTexts(MaxCyrillicPieces)
    /\ fragments = <<>>
    /\ marked_text = None
    /\ highlighted = <<>>
    /\ PipeIdle

NextCyrillic ==
    \/ ValidateTranslation
    \/ MarkFragments
    \/ ExtractFragments

SpecCyrillic == InitCyrillic /\ [][NextCyrillic]_vars

(***************************************************************************)
(* Properties of the dependency grapher                                    *)
(***************************************************************************)
\* the "depends on" relation among the Sections of the document
DependsOn(secs) ==
    UNION {{<<secs[i].id, d>> : d \in secs[i].dependencies \cap DocIds(secs)} :
              i \in 1..Len(secs)}

RECURSIVE Closure(_, _)
Closure(R, n) ==
    IF n = 0 THEN R
    ELSE LET C == Closure(R, n - 1)
         IN  C \cup {<<pq[1][1], pq[2][2]>> : pq \in {x \in C \X R : x[1][2] = x[2][1]}}

HasCycle(secs) ==
    \E id \in DocIds(secs) : <<id, id>> \in Closure(DependsOn(secs), Len(secs))

Acyclic(secs) == ~HasCycle(secs)

\* C1: for an acyclic dependency relation the returned list places every
\* Section at a later index than every Section named in its dependencies.
C1_DependenciesFirst ==
    (pc = "sorted" /\ Acyclic(sections)) =>
        \A i, j \in 1..Len(result) :
            result[j].id \in result[i].dependencies => j < i

\* C2: for a cyclic dependency relation topological_sort returns the
\* Sections in the document's original order and prints the cycle warning.
C2_CycleFallsBack ==
    (pc = "sorted" /\ HasCycle(sections)) =>
        (result = sections /\ cycle_warning)

C2_Witness ==
    /\ pc = "sorted"
    /\ HasCycle(sections)
    /\ sorted_ids # <<>>
    /\ result = sections
    /\ cycle_warning

\* C3: the original-order fallback with its circular-dependency warning is
\* taken only when the dependency relation really contains a cycle.
C3_FallbackOnlyOnCycle ==
    (pc = "sorted" /\ cycle_warning) => HasCycle(sections)

\* C4: whatever the dependencies sets hold, the returned list is a
\* permutation of document.sections.
C4_Permutation ==
    pc = "sorted" =>
        /\ Len(result) = Len(sections)
        /\ \A i \in 1..Len(sections) :
              Cardinality({k \in 1..Len(result) : result[k] = sections[i]}) = 1

C4_Witness ==
    /\ pc = "sorted"
    /\ ~cycle_warning
    /\ Len(result) = MaxSections
    /\ result # sections

\* C10: once analyze_dependencies has run, no Section depends on itself.
C10_NoSelfDependency ==
    pc # "parsed" =>
        \A i \in 1..Len(sections) : sections[i].id \notin sections[i].dependencies

\* one way of enumerating a set, the same for the same set
FixedOrder(S) == CHOOSE order \in Orders(S) : TRUE

\* graph and in_degree after the build loop has taken the Sections from the
\* i-th on, every dependencies set enumerated in its fixed order
RECURSIVE BuiltFrom(_, _, _, _)
BuiltWith(secs, i, r) == BuiltFrom(secs, i + 1, r.g, r.d)

BuiltFrom(secs, i, g, d) ==
    IF i > Len(secs) THEN [g |-> g, d |-> d]
    ELSE BuiltWith(secs, i, AddEdges(g, d, secs[i].id, FixedOrder(secs[i].dependencies)))

\* sorted_ids when the while loop ends
RECURSIVE Drained(_, _, _, _)
DrainedWith(g, ids, current_id, r) == Drained(g, r.d, r.q, Append(ids, current_id))

Drained(g, d, q, ids) ==
    IF q = <<>> THEN ids
    ELSE DrainedWith(g, ids, Head(q), Relax(d, Tail(q), GraphGet(g, Head(q))))

SortedIdsOf(secs, built) ==
    Drained(built.g, built.d, ZeroDegree(built.d, DegreeKeys(secs)), <<>>)

ReturnedFor(secs, ids) ==
    IF CycleDetected(ids, secs) THEN secs ELSE SortedSections(ids, secs)

\* what topological_sort returns for secs when every set is enumerated in
\* its fixed order
FixedOrderSort(secs) ==
    ReturnedFor(secs, SortedIdsOf(secs, BuiltFrom(secs, 1, EmptyMap, [k \in DocIds(secs) |-> 0])))

\* C21: the list topological_sort returns is a function of the Section list
\* and of the dependencies sets; whatever the order in which a run
\* enumerates a dependencies set, it returns the list of the run that
\* enumerates every set in one fixed order.
C21_OrderIndependent == pc = "sorted" => result = FixedOrderSort(sections)

\* a Section with two dependencies, one of which depends on the other, is
\* moved behind both
C21_Witness ==
    /\ pc = "sorted"
    /\ ~cycle_warning
    /\ result # sections
    /\ \E i \in 1..Len(sections) :
          /\ Cardinality(sections[i].dependencies) = 2
          /\ \E j \in 1..Len(sections) :
                /\ sections[j].id \in sections[i].dependencies
                /\ sections[j].dependencies \cap sections[i].dependencies # {}

(***************************************************************************)
(* Properties of the formula validator                                     *)
(***************************************************************************)
\* the normalized formulas of a text
NormInline(text) == NormalizeAll(extract_formulas_from_paragraph(text).inline)
NormDisplay(text) == NormalizeAll(extract_formulas_from_paragraph(text).display)

SameInlineSet(a, b) == ToSet(NormInline(a)) = ToSet(NormInline(b))
SameDisplaySeq(a, b) == NormDisplay(a) = NormDisplay(b)
FormulasAgree(a, b) == SameInlineSet(a, b) /\ SameDisplaySeq(a, b)

Validated == vpc = "validated"
SourceParagraphs == _split_paragraphs(section.content)
TargetParagraphs == _split_paragraphs(section.translation[1])
Aligned == Abs(Len(SourceParagraphs) - Len(TargetParagraphs)) <= 1

\* C5: a Section whose translation equals its content character for
\* character yields an empty list.
C5_VerbatimCopyIsClean ==
    (Validated /\ section.translation = Some(section.content)) =>
        validations = <<>>

C5_Witness ==
    /\ Validated
    /\ section.translation = Some(section.content)
    /\ Len(paragraph_log) >= 2
    /\ \E k \in 1..Len(paragraph_log) : paragraph_log[k].source_inline # <<>>
    /\ \E k \in 1..Len(paragraph_log) : paragraph_log[k].source_display # <<>>
    /\ validations = <<>>

\* C6: in every record of _validate_paragraph inline_match is true exactly
\* when source and target hold the same inline formulas, order and
\* multiplicity ignored, and display_match exactly when the two display
\* sequences have the same length and agree element by element.
C6_SetVersusSequence ==
    Validated =>
        \A k \in 1..Len(paragraph_log) :
            LET v == paragraph_log[k]
            IN  /\ v.inline_match <=>
                      /\ \A i \in 1..Len(v.source_inline) :
                            \E j \in 1..Len(v.target_inline) :
                                v.source_inline[i] = v.target_inline[j]
                      /\ \A j \in 1..Len(v.target_inline) :
                            \E i \in 1..Len(v.source_inline) :
                                v.source_inline[i] = v.target_inline[j]
                /\ v.display_match <=>
                      /\ Len(v.source_display) = Len(v.target_display)
                      /\ \A i \in 1..Len(v.source_display) :
                            v.source_display[i] = v.target_display[i]

\* inline [x, y] against [y, x] matches, display [a, b] against [b, a] does not
C6_Witness ==
    /\ Validated
    /\ \E k \in 1..Len(paragraph_log) :
          LET v == paragraph_log[k]
          IN  /\ v.source_inline = << <<"x">>, <<"y">> >>
              /\ v.target_inline = << <<"y">>, <<"x">> >>
              /\ v.inline_match
              /\ v.source_display = << <<"a">>, <<"b">> >>
              /\ v.target_display = << <<"b">>, <<"a">> >>
              /\ ~v.display_match

\* indices (0-based) of the aligned paragraph pairs whose formulas disagree
FailingPairs(sp, tp) ==
    {i \in 0..(Len(sp) - 1) \cap 0..(Len(tp) - 1) :
        ~FormulasAgree(sp[i + 1], tp[i + 1])}

\* C7: when the paragraph counts differ by at most one, the result holds
\* exactly one record per failing pair below the shorter count, in
\* increasing index order, each with a match flag false and a diff.
C7_OneRecordPerFailingPair ==
    Validated =>
        LET sp == SourceParagraphs
            tp == TargetParagraphs
        IN  Abs(Len(sp) - Len(tp)) <= 1 =>
                /\ {validations[k].paragraph_index : k \in 1..Len(validations)}
                       = FailingPairs(sp, tp)
                /\ \A k \in 1..(Len(validations) - 1) :
                      validations[k].paragraph_index
                          < validations[k + 1].paragraph_index
                /\ \A k \in 1..Len(validations) :
                      /\ ~validations[k].inline_match \/ ~validations[k].display_match
                      /\ validations[k].diff # None

C7_Witness ==
    /\ Validated
    /\ Aligned
    /\ Len(SourceParagraphs) = 3
    /\ Len(validations) = 2
    /\ validations[1].paragraph_index = 0
    /\ validations[2].paragraph_index = 2
    /\ validations[1].display_match
    /\ validations[2].inline_match

\* C8: an empty result means that every formula of the source is in the
\* rewritten text: Section-wide, the display sequences and the inline sets of
\* source and target agree.
C8_EmptyMeansPreserved ==
    (Validated /\ validations = <<>>) =>
        FormulasAgree(section.content, section.translation[1])

\* C9: when the paragraph counts differ by more than one the two texts are
\* compared as one block: the result is empty or one record of index 0, the
\* latter exactly when the whole texts disagree.
C9_WholeSectionFallback ==
    (Validated /\ ~Aligned) =>
        /\ Len(paragraph_log) = 1
        /\ Len(validations) <= 1
        /\ \A k \in 1..Len(validations) : validations[k].paragraph_index = 0
        /\ validations # <<>> <=>
              ~FormulasAgree(section.content, section.translation[1])

C9_Witness ==
    /\ Validated
    /\ Len(SourceParagraphs) = 3
    /\ Len(TargetParagraphs) = 1
    /\ paragraph_log[1].source_inline # <<>>
    /\ paragraph_log[1].source_display # <<>>
    /\ validations = <<>>

\* the parts of the diff d that are named name
PartsNamed(d, name) == SelectSeq(d, LAMBDA p : p.part = name)

PartNames ==
    {"Missing inline formulas", "Extra inline formulas", "Display formulas mismatch",
     "Source", "Target", "Formula differs", "Count mismatch"}

\* the diff d holds a part named name exactly when S is not empty, and the
\* part lists each formula of S once and nothing else
InlineReported(d, name, S) ==
    IF S = {} THEN PartsNamed(d, name) = <<>>
    ELSE /\ Len(PartsNamed(d, name)) = 1
         /\ ToSet(PartsNamed(d, name)[1].formulas) = S
         /\ Len(PartsNamed(d, name)[1].formulas) = Cardinality(S)

\* the 0-based indices common to both sequences at which they differ
DifferingIndices(src, tgt) ==
    {i \in 0..(Len(src) - 1) : i < Len(tgt) /\ src[i + 1] # tgt[i + 1]}

\* what the diff d says about the display formulas
DisplayReported(d, src, tgt) ==
    IF src = tgt
    THEN \A p \in ToSet(d) : p.part \in {"Missing inline formulas", "Extra inline formulas"}
    ELSE /\ Len(PartsNamed(d, "Display formulas mismatch")) = 1
         /\ PartsNamed(d, "Source") = <<DiffPart("Source", <<>>, Len(src), 0)>>
         /\ PartsNamed(d, "Target") = <<DiffPart("Target", <<>>, Len(tgt), 0)>>
         /\ {p.n : p \in ToSet(PartsNamed(d, "Formula differs"))}
                = {i + 1 : i \in DifferingIndices(src, tgt)}
         /\ Len(PartsNamed(d, "Formula differs")) = Cardinality(DifferingIndices(src, tgt))
         /\ PartsNamed(d, "Count mismatch")
                = IF Len(src) # Len(tgt)
                  THEN <<DiffPart("Count mismatch", <<>>, Len(src), Len(tgt))>>
                  ELSE <<>>

DiffReports(v) ==
    /\ \A p \in ToSet(v.diff[1]) : p.part \in PartNames
    /\ InlineReported(v.diff[1], "Missing inline formulas",
                      ToSet(v.source_inline) \ ToSet(v.target_inline))
    /\ InlineReported(v.diff[1], "Extra inline formulas",
                      ToSet(v.target_inline) \ ToSet(v.source_inline))
    /\ DisplayReported(v.diff[1], v.source_display, v.target_display)

\* C18: the diff of a failing paragraph lists exactly the inline formulas of
\* the source set that the target set lacks and those of the target set that
\* the source set lacks; when the display sequences differ it gives both
\* counts, names (counting from 1) exactly the common indices at which the
\* two formulas differ, and holds a count-mismatch note exactly when the
\* lengths differ.
C18_DiffReportsDifferences ==
    \A k \in 1..Len(paragraph_log) :
        paragraph_log[k].diff # None => DiffReports(paragraph_log[k])

\* source 'Let $x$ satisfy $$x=1$$.' and target 'Let $x$ satisfy $$x=2$$.':
\* the display formula at index 0 is named as differing
C18_Witness ==
    /\ vpc = "validated"
    /\ section.content = SampleTexts[12]
    /\ section.translation = Some(SampleTexts[13])
    /\ Len(paragraph_log) = 1
    /\ paragraph_log[1].inline_match
    /\ ~paragraph_log[1].display_match
    /\ paragraph_log[1].diff
          = Some(<<DiffPart("Display formulas mismatch", <<>>, 0, 0),
                   DiffPart("Source", <<>>, 1, 0),
                   DiffPart("Target", <<>>, 1, 0),
                   DiffPart("Formula differs", <<>>, 1, 0)>>)


\* C19: two validations of the same source and target produce the same
\* diff strings, whatever the order in which a set of two or more missing or
\* extra inline formulas is enumerated.
C19_DiffStable == vpc = "revalidated" => revalidations = validations

\* the 0-based indices of the sections that have a rewritten text, in
\* document order
Translated ==
    SelectSeq([k \in 1..Len(doc_sections) |-> k - 1],
              LAMBDA i : doc_sections[i + 1].translation \notin {None, Some(<<>>)})

RECURSIVE RecordsOf(_)
RecordsOf(calls) ==
    IF calls = <<>> THEN <<>> ELSE Head(calls).records \o RecordsOf(Tail(calls))

\* C20: validate_section is called for exactly the sections that have a
\* rewritten text (translation neither unset nor empty), in document order,
\* and validate_document returns the concatenation of what the calls
\* returned; every other section contributes no record.
C20_OnlyRewrittenValidated ==
    dpc = "returned" =>
        /\ [k \in 1..Len(visited) |-> visited[k].index] = Translated
        /\ all_validations = RecordsOf(visited)
        /\ \A k \in 1..Len(visited) :
              visited[k].records
                \in {run.problematic :
                       run \in validate_section(doc_sections[visited[k].index + 1].content,
                                                doc_sections[visited[k].index + 1].translation[1])}

\* a section without translation, one with an empty translation and one
\* whose rewritten text fails in both paragraphs
C20_Witness ==
    /\ dpc = "returned"
    /\ doc_sections = <<DocSection(DocTexts[1], None),
                         DocSection(DocTexts[1], Some(<<>>)),
                         DocSection(DocTexts[1], Some(DocTexts[2]))>>
    /\ Len(visited) = 1
    /\ visited[1].index = 2
    /\ Len(all_validations) = 2

(***************************************************************************)
(* Properties of the parser                                                *)
(***************************************************************************)
Parsed == ppc = "parsed"

\* a heading command of depth k stands at index i of t: the command name,
\* an opening brace, a title of at least one character, a closing brace
HeadingAt(t, i, k) ==
    \E e \in (i + 1)..Len(t) :
        /\ StartsWith(t, i, <<"\\">> \o LevelNames[k] \o <<"{">>)
        /\ e > i + Len(LevelNames[k]) + 2
        /\ t[e] = "}"
        /\ \A j \in (i + Len(LevelNames[k]) + 2)..(e - 1) : t[j] # "}"

\* where the heading commands of t stand (the titles hold no heading)
HeadingStarts(t) == {i \in 1..Len(t) : \E k \in 1..3 : HeadingAt(t, i, k)}

DepthAt(t, i) == CHOOSE k \in 1..3 : HeadingAt(t, i, k)

\* the j-th least element of a set of indices
Nth(S, j) == CHOOSE i \in S : Cardinality({x \in S : x < i}) = j - 1

\* C11: a body with n >= 1 heading commands gives exactly n Sections with
\* the ids sec_0 .. sec_(n-1) in heading order, pairwise different, each
\* with level 1, 2 or 3 for section, subsection, subsubsection.
C11_PositionalIds ==
    Parsed =>
        LET body == document[1].content
            hs == HeadingStarts(body)
            secs == document[1].sections
        IN  hs # {} =>
                /\ Len(secs) = Cardinality(hs)
                /\ \A j \in 1..Len(secs) :
                      /\ secs[j].id = SecIds[j]
                      /\ secs[j].level = DepthAt(body, Nth(hs, j))
                      /\ secs[j].level \in {1, 2, 3}
                /\ \A j, k \in 1..Len(secs) : j # k => secs[j].id # secs[k].id

\* a subsubsection, a section and a subsection, in that order
C11_Witness ==
    /\ Parsed
    /\ Len(document[1].sections) = 3
    /\ document[1].sections[1].level = 3
    /\ document[1].sections[2].level = 1
    /\ document[1].sections[3].level = 2
    /\ document[1].sections[3].id = "sec_2"

\* C12: a body without heading commands gives exactly one Section, id
\* "main", level 0, whose content is the whole body; a parsed Document has
\* at least one Section.
C12_MainFallback ==
    Parsed =>
        /\ Len(document[1].sections) >= 1
        /\ HeadingStarts(document[1].content) = {} =>
              /\ Len(document[1].sections) = 1
              /\ document[1].sections[1].id = "main"
              /\ document[1].sections[1].level = 0
              /\ document[1].sections[1].content = document[1].content

\* a body that starts with a blank and holds a formula
C12_Witness ==
    /\ Parsed
    /\ HeadingStarts(document[1].content) = {}
    /\ document[1].content # <<>>
    /\ document[1].content[1] = " "
    /\ document[1].sections[1].formulas # <<>>
    /\ document[1].sections[1].id = "main"

\* C13: with both markers present (the end marker after the begin marker)
\* the preamble is the text before the begin marker, the body the text
\* between the markers, the postamble the text after the end marker; with
\* a marker missing the whole content is the body and preamble and
\* postamble are empty.
C13_MarkersSplit ==
    Parsed =>
        LET c == flattened[1]
            b == FindLit(c, BeginDocument, 1)
            e == FindLit(c, EndDocument, 1)
        IN  /\ (b # 0 /\ e > b) =>
                  /\ document[1].preamble = SubSeq(c, 1, b - 1)
                  /\ document[1].content = SubSeq(c, b + Len(BeginDocument), e - 1)
                  /\ document[1].postamble = SubSeq(c, e + Len(EndDocument), Len(c))
            /\ (b = 0 \/ e = 0) =>
                  /\ document[1].content = c
                  /\ document[1].preamble = <<>>
                  /\ document[1].postamble = <<>>

\* a formula of the given kind and content stands at offset f.position of t
StandsAt(t, f) ==
    /\ f.position + 1 <= Len(t)
    /\ \E pattern \in (IF f.formula_type = "inline" THEN {INLINE_PATTERN}
                       ELSE ToSet(DISPLAY_PATTERNS)) :
          LET m == MatchAt(pattern, t, f.position + 1)
          IN  /\ m # NoMatch
              /\ strip(SubSeq(t, m.cstart, m.cstop)) = f.content

\* C14: the position of every Formula of a Section, inline or display, is
\* the start offset of its match in the Section's original content.
C14_PositionInOriginal ==
    Parsed =>
        \A j \in 1..Len(document[1].sections) :
            LET sec == document[1].sections[j]
            IN  \A k \in 1..Len(sec.formulas) : StandsAt(sec.content, sec.formulas[k])

\* the index of the closing brace of the heading command that stands at h
HeadingEnd(t, h) ==
    CHOOSE e \in (h + 1)..Len(t) :
        /\ e > h + Len(LevelNames[DepthAt(t, h)]) + 2
        /\ t[e] = "}"
        /\ \A j \in (h + Len(LevelNames[DepthAt(t, h)]) + 2)..(e - 1) : t[j] # "}"

\* the text from the end of the j-th heading to the start of the next one,
\* or to the end of the body
PartAfter(t, hs, j) ==
    SubSeq(t, HeadingEnd(t, Nth(hs, j)) + 1,
           IF j < Cardinality(hs) THEN Nth(hs, j + 1) - 1 ELSE Len(t))

\* the text in front of the first heading
LeadingPart(t, hs) == SubSeq(t, 1, Nth(hs, 1) - 1)

\* the parts of the body outside its heading commands, in order; a leading
\* part of whitespace alone is no part
BodyParts(t, hs) ==
    IF hs = {} THEN <<t>>
    ELSE (IF strip(LeadingPart(t, hs)) = <<>> THEN <<>> ELSE <<LeadingPart(t, hs)>>)
         \o [j \in 1..Cardinality(hs) |-> PartAfter(t, hs, j)]

\* C23: the Sections cover the body: up to surrounding whitespace, every
\* part of the body outside the heading commands, the text in front of the
\* first heading included, is the content of exactly one Section, in order.
C23_SectionsCoverBody ==
    Parsed =>
        LET body == document[1].content
            parts == BodyParts(body, HeadingStarts(body))
            secs == document[1].sections
        IN  /\ Len(secs) = Len(parts)
            /\ \A j \in 1..Len(secs) : strip(secs[j].content) = strip(parts[j])

\* the parts that follow the headings are the contents of the Sections
C23_PartsAfterHeadings ==
    Parsed =>
        LET body == document[1].content
            hs == HeadingStarts(body)
            secs == document[1].sections
        IN  hs # {} =>
                \A j \in 1..Len(secs) : secs[j].content = strip(PartAfter(body, hs, j))

(***************************************************************************)
(* Properties of the flattener                                             *)
(***************************************************************************)
Returned == fpc = "returned"

\* the character t[i] lies in a comment: an unescaped "%" stands before it
\* on its line
InComment(t, i) ==
    \E j \in 1..i :
        /\ t[j] = "%"
        /\ j = 1 \/ t[j - 1] # "\\"
        /\ \A k \in j..i : t[k] # "\n"

\* t without its comments
Stripped(t) ==
    LET kept == SelectSeq([i \in 1..Len(t) |-> i], LAMBDA i : ~InComment(t, i))
    IN  [k \in 1..Len(kept) |-> t[kept[k]]]

\* the text of a file as it reaches its parent
AsRead(name) == IF preserve_comments THEN files[name] ELSE Stripped(files[name])

\* the file a directive names, the directive itself
Named(text, m) == TexName(SubSeq(text, m.cstart, m.cstop))
Directive(text, m) == SubSeq(text, m.start, m.stop)

\* text with every directive to an existing file replaced, depth first, by
\* the expansion of that file; fuel nested files are followed
RECURSIVE Expand(_, _)
RECURSIVE ExpandFrom(_, _, _, _)
ExpandFrom(text, ms, pos, fuel) ==
    IF ms = <<>> THEN SubSeq(text, pos, Len(text))
    ELSE SubSeq(text, pos, ms[1].start - 1)
         \o (IF Named(text, ms[1]) \in DOMAIN files /\ fuel > 0
             THEN Expand(AsRead(Named(text, ms[1])), fuel - 1)
             ELSE Directive(text, ms[1]))
         \o ExpandFrom(text, Tail(ms), ms[1].stop + 1, fuel)

Expand(text, fuel) == ExpandFrom(text, FindIter(include_pattern, text, 1), 1, fuel)

Expanded == Expand(AsRead(MainFile), Len(FileNames))

\* the missing files in the order in which the expansion comes to them
RECURSIVE Missing(_, _)
RECURSIVE MissingFrom(_, _, _)
MissingFrom(text, ms, fuel) ==
    IF ms = <<>> THEN <<>>
    ELSE (IF Named(text, ms[1]) \notin DOMAIN files THEN <<Named(text, ms[1])>>
          ELSE IF fuel > 0 THEN Missing(AsRead(Named(text, ms[1])), fuel - 1)
          ELSE <<>>)
         \o MissingFrom(text, Tail(ms), fuel)

Missing(text, fuel) == MissingFrom(text, FindIter(include_pattern, text, 1), fuel)

\* the existing files a file includes
IncludesOf(name) ==
    {Named(AsRead(name), m) : m \in ToSet(FindIter(include_pattern, AsRead(name), 1))}
    \cap DOMAIN files

InclusionRel == UNION {{<<f, g>> : g \in IncludesOf(f)} : f \in DOMAIN files}

InclusionClosure == Closure(InclusionRel, Len(FileNames))

\* a file that the main file reaches includes itself, directly or not
InclusionCyclic ==
    \E g \in DOMAIN files :
        /\ g = MainFile \/ <<MainFile, g>> \in InclusionClosure
        /\ <<g, g>> \in InclusionClosure

\* C15: a directive that names a missing file does not make flattening
\* fail; it is left verbatim at its place, a warning names the file, and
\* every other directive is still resolved.
C15_MissingFileLeftVerbatim ==
    /\ fpc = "overflow" => InclusionCyclic
    /\ Returned =>
          /\ warnings = Missing(AsRead(MainFile), Len(FileNames))
          /\ flattened[1] = Expanded

\* a missing file is named in front of an existing one, which is resolved
C15_Witness ==
    /\ Returned
    /\ files[MainFile] = FlatPieces[3] \o FlatPieces[1]
    /\ FileNames[2] \in DOMAIN files
    /\ warnings = <<TexName(<<"c">>)>>
    /\ flattened[1] = FlatPieces[3] \o AsRead(FileNames[2])

\* C16: flatten_document returns if and only if the inclusion relation the
\* main file reaches has no cycle; when it returns, every directive to an
\* existing file is replaced depth first by that file's resolved content.
\* (every run comes to its end: it returns, or the calls reach the deepest
\* one followed, which happens for a cyclic relation only)
C16_ReturnsIffAcyclic ==
    /\ <>(Returned \/ fpc = "overflow")
    /\ [](fpc = "overflow" => InclusionCyclic)
    /\ [](Returned => ~InclusionCyclic /\ flattened[1] = Expanded)

\* main.tex includes a.tex, which includes b.tex
C16_Witness ==
    /\ Returned
    /\ FileNames[2] \in IncludesOf(MainFile)
    /\ FileNames[3] \in IncludesOf(FileNames[2])
    /\ flattened[1] # AsRead(MainFile)

\* no unescaped "%" is left in t
NoComment(t) == \A i \in 1..Len(t) : ~InComment(t, i)

\* C17: with comment stripping enabled every file loses its comments when
\* it is read: no directive inside a comment is resolved and a comment of
\* an included file takes nothing from the parent's line.
C17_StrippedWhenRead ==
    (Returned /\ ~preserve_comments) =>
        /\ NoComment(flattened[1])
        /\ flattened[1] = Expand(Stripped(files[MainFile]), Len(FileNames))

\* a.tex holds a comment, main.tex has text behind the directive and a
\* second directive inside a comment
C17_Witness ==
    /\ Returned
    /\ ~preserve_comments
    /\ files[MainFile] = FlatSamples[1]
    /\ FileNames[2] \in DOMAIN files
    /\ files[FileNames[2]] = IncludedTexts[2]
    /\ FileNames[3] \in DOMAIN files
    /\ flattened[1] = <<"x", "\n", "z", "w", "\n", "\n">> \o FlatPieces[3]
                          \o <<"x", "\n", "z">>

(***************************************************************************)
(* Properties of the client                                                *)
(***************************************************************************)
\* how many of the first n entries of api_log are requests
RequestsBefore(n) == Cardinality({j \in 1..n : api_log[j].call = "create"})

\* C24: a call of chat_completion makes at most max_retries requests; a
\* request that succeeds is the last entry of the log and its content is
\* returned; the k-th request (k from 0), when it fails and is not the last
\* allowed one, is followed by a sleep of 2^k seconds and by nothing else
\* before the next request; when the last allowed request fails its error
\* is raised and no sleep follows.
C24_BoundedBackoff ==
    /\ RequestsBefore(Len(api_log)) <= max_retries
    /\ \A i \in 1..Len(api_log) :
          IF api_log[i].call = "create"
          THEN /\ api_log[i].ok =>
                     /\ i = Len(api_log)
                     /\ cpc = "returned"
                     /\ outcome = Some(Returns(api_log[i].value))
               /\ (~api_log[i].ok /\ RequestsBefore(i - 1) # max_retries - 1) =>
                     /\ i < Len(api_log)
                     /\ api_log[i + 1] = Slept(2 ^ RequestsBefore(i - 1))
               /\ (~api_log[i].ok /\ RequestsBefore(i - 1) = max_retries - 1) =>
                     /\ i = Len(api_log)
                     /\ cpc = "raised"
                     /\ outcome = Some(Raises(api_log[i].value))
          ELSE /\ i > 1
               /\ api_log[i - 1].call = "create"
               /\ ~api_log[i - 1].ok
    /\ cpc = "returned" => api_log # <<>> /\ api_log[Len(api_log)].call = "create"
    /\ (cpc = "raised" /\ max_retries > 0) => RequestsBefore(Len(api_log)) = max_retries

\* three requests allowed, all three fail: sleeps of 1 and 2 seconds, then
\* the third error is raised
C24_Witness ==
    /\ cpc = "raised"
    /\ max_retries = 3
    /\ Len(api_log) = 5
    /\ api_log[2] = Slept(1)
    /\ api_log[4] = Slept(2)
    /\ outcome = Some(Raises(api_log[5].value))

(***************************************************************************)
(* Properties of the Cyrillic validator                                    *)
(***************************************************************************)
\* t from index i on without the occurrences of lit
RECURSIVE WithoutLit(_, _, _)
WithoutLitAt(t, lit, i, s) ==
    IF s = 0 THEN SubSeq(t, i, Len(t))
    ELSE SubSeq(t, i, s - 1) \o WithoutLit(t, lit, s + Len(lit))

WithoutLit(t, lit, i) == WithoutLitAt(t, lit, i, FindLit(t, lit, i))

WithoutMarkers(t) == WithoutLit(WithoutLit(t, marker_start, 1), marker_end, 1)

FragmentTexts(fs) == [k \in 1..Len(fs) |-> fs[k].text]

\* C30: the fragments extracted from the marked text are exactly the texts
\* of the fragments find_cyrillic_fragments found, in order, and the marked
\* text without its markers is the original text.
C30_MarkExtractRoundTrip ==
    ypc = "extracted" =>
        /\ highlighted = FragmentTexts(fragments)
        /\ WithoutMarkers(marked_text[1]) = cyr_text

\* the marked text without its markers is the original text
C30_MarkersRemovable ==
    ypc = "extracted" => WithoutMarkers(marked_text[1]) = cyr_text

\* in a text without formulas the round trip holds
C30_RoundTripWithoutFormulas ==
    (ypc = "extracted" /\ _remove_formulas(cyr_text) = cyr_text) =>
        highlighted = FragmentTexts(fragments)

(***************************************************************************)
(* TranslationEngine.translate_document                                    *)
(***************************************************************************)
\* a Section of the Document handed to the translation phases
RunSection(id, content, dependencies) ==
    [id |-> id, content |-> content, dependencies |-> dependencies,
     translation |-> None, translation_attempts |-> 0]

\* the contents of the Sections, by position: an inline formula, two
\* paragraphs with a display formula, no text at all
RunContents ==
    << <<"$", "x", "$">>,
       <<"w", "\n", "\n", "$", "$", "a", "$", "$">>,
       <<>>,
       <<"$", "x", "$">> >>

\* what the model may answer, whatever it was asked: the formula kept, the
\* formula changed, the formula kept and a Cyrillic letter left in the text
LlmReplies ==
    { <<"$", "x", "$">>,
      <<" ", "$", "y", "$">>,
      <<"$", "x", "$", " ", "ya", "\n">> }

\* the configuration of a run: config["translation"]["max_retries"],
\* config["output"]["mark_problematic"], config["translation"]["source_language"]
Config(retries, mark, language) ==
    [max_retries |-> retries, mark_problematic |-> mark, source_language |-> language]

\* main.py lines 95-107
DefaultConfig == Config(2, TRUE, "russian")

\* Document.get_section: the index of the first Section with the id, 0 for None
get_section(secs, section_id) ==
    IF \E i \in 1..Len(secs) : secs[i].id = section_id
    THEN Min({i \in 1..Len(secs) : secs[i].id = section_id})
    ELSE 0

\* lines 136-140
DepTranslations(sec, dict) ==
    [dep_id \in {d \in sec.dependencies : d \in DOMAIN dict} |-> dict[dep_id]]

\* a call of translate_section: what it was given and whether it raised
TranslateCall(id, dependency_translations, strict_formulas, raised) ==
    [call |-> "translate_section", id |-> id,
     dependency_translations |-> dependency_translations,
     strict_formulas |-> strict_formulas, raised |-> raised]

\* lines 151-153
WithTranslation(sec, translation) ==
    [sec EXCEPT !.translation = Some(translation), !.translation_attempts = 1]

\* line 157
FellBackCounted(sec) ==
    [sec EXCEPT !.translation = Some(sec.content), !.translation_attempts = 1]
FellBack(sec) == [sec EXCEPT !.translation = Some(sec.content)]

\* lines 132-153: translate_section returns
TranslateSection ==
    /\ tpc = "translate_document"
    /\ run_i < Len(sorted_sections)
    /\ \E k \in {get_section(run_sections, sorted_sections[run_i + 1])} :
       \E reply \in LlmReplies :
          /\ run_sections' = [run_sections EXCEPT ![k] = WithTranslation(@, strip(reply))]
          /\ translations' = MapPut(translations, run_sections[k].id, strip(reply))
          /\ llm_calls' = Append(llm_calls,
                TranslateCall(run_sections[k].id,
                              DepTranslations(run_sections[k], translations),
                              FALSE, FALSE))
    /\ run_i' = run_i + 1
    /\ UNCHANGED <<tpc, config, sorted_sections, run_problematic, retry_queue, exit_code>>
    /\ UNCHANGED <<sortVars, valVars, flatVars, parseVars, docVars, clientVars, cyrVars>>

\* lines 132-158: translate_section raises
TranslateFails ==
    /\ tpc = "translate_document"
    /\ run_i < Len(sorted_sections)
    /\ \E k \in {get_section(run_sections, sorted_sections[run_i + 1])} :
          /\ run_sections' = [run_sections EXCEPT ![k] = FellBack(@)]
          /\ translations' = MapPut(translations, run_sections[k].id, run_sections[k].content)
          /\ llm_calls' = Append(llm_calls,
                TranslateCall(run_sections[k].id,
                              DepTranslations(run_sections[k], translations),
                              FALSE, TRUE))
    /\ run_i' = run_i + 1
    /\ UNCHANGED <<tpc, config, sorted_sections, run_problematic, retry_queue, exit_code>>
    /\ UNCHANGED <<sortVars, valVars, flatVars, parseVars, docVars, clientVars, cyrVars>>

\* line 160
ReturnDocument ==
    /\ tpc = "translate_document"
    /\ run_i = Len(sorted_sections)
    /\ tpc' = "translated"
    /\ UNCHANGED <<config, run_sections, sorted_sections, run_i, translations,
                   llm_calls, run_problematic, retry_queue, exit_code>>
    /\ UNCHANGED <<sortVars, valVars, flatVars, parseVars, docVars, clientVars, cyrVars>>

\* the Sections of a document with n headings (none: the one Section main)
\* after analyze_dependencies stored the pairs (section id, dependency id)
RunSections(n, pairs) ==
    IF n = 0 THEN <<RunSection(MainId, RunContents[1], {})>>
    ELSE [i \in 1..n |->
            RunSection(SecIds[i], RunContents[i],
                       {p[2] : p \in {q \in pairs : q[1] = SecIds[i]}})]

\* the dependencies an analysis can store: none for a single Section, else
\* up to MaxRunDeps pairs over the ids of the document and an id of no Section
DependencyPairs(n) ==
    IF n <= 1 THEN {{}}
    ELSE {pairs \in SUBSET ({SecIds[i] : i \in 1..n}
                            \X ({SecIds[i] : i \in 1..n} \cup {GhostId})) :
             Cardinality(pairs) <= MaxRunDeps}

\* main.py line 149: the ids of the list topological_sort returns
SortedIds(secs) == [k \in 1..Len(secs) |-> secs[k].id]
topological_sort(secs) == SortedIds(FixedOrderSort(secs))

RunStart(secs, configuration) ==
    /\ tpc = "translate_document"
    /\ config = configuration
    /\ run_sections = secs
    /\ sorted_sections = topological_sort(secs)
    /\ run_i = 0
    /\ translations = EmptyMap
    /\ llm_calls = <<>>
    /\ run_problematic = <<>>
    /\ retry_queue = <<>>
    /\ exit_code = None

\* main.py lines 145-178: translate_document is called with the order
\* topological_sort returned
InitTranslateDocument ==
    /\ SortIdle
    /\ ValIdle
    /\ FlatIdle
    /\ ParseIdle
    /\ DocIdle
    /\ ClientIdle
    /\ CyrIdle
    /\ \E n \in 0..MaxRunSections : \E pairs \in DependencyPairs(n) :
          RunStart(RunSections(n, pairs), DefaultConfig)

NextTranslateDocument ==
    \/ TranslateSection
    \/ TranslateFails
    \/ ReturnDocument

SpecTranslateDocument == InitTranslateDocument /\ [][NextTranslateDocument]_vars

(***************************************************************************)
(* ArticleTranslator.translate, phases 5 to 6                              *)
(***************************************************************************)
\* formula_validator.py lines 30-39: the lists validate_document can return
\* for the Sections from the i-th on
RECURSIVE ValidateFrom(_, _)
ValidateFrom(secs, i) ==
    IF i > Len(secs) THEN {<<>>}
    ELSE IF ~Truthy(secs[i].translation) THEN ValidateFrom(secs, i + 1)
    ELSE {run.problematic \o rest :
             run \in validate_section(secs[i].content, secs[i].translation[1]),
             rest \in ValidateFrom(secs, i + 1)}

validate_document(secs) == ValidateFrom(secs, 1)

\* lines 278-279: the index of the first Section whose translation is
\* truthy, 0 when the loop ends without a break
FirstTranslated(secs) ==
    IF \E i \in 1..Len(secs) : Truthy(secs[i].translation)
    THEN Min({i \in 1..Len(secs) : Truthy(secs[i].translation)})
    ELSE 0

\* lines 280-283: the keys of section_issues once the validation was filed
\* under the Section at index i
FiledUnder(secs, keys, i) ==
    IF i = 0 \/ secs[i].id \in ToSet(keys) THEN keys ELSE Append(keys, secs[i].id)

\* lines 276-283: the keys of section_issues, in insertion order
RECURSIVE GroupBySection(_, _, _)
GroupBySection(secs, records, keys) ==
    IF records = <<>> THEN keys
    ELSE GroupBySection(secs, Tail(records),
                        FiledUnder(secs, keys, FirstTranslated(secs)))

\* lines 294-298
RetryDepTranslations(secs, sec) ==
    [dep_id \in {d \in sec.dependencies :
                    /\ get_section(secs, d) # 0
                    /\ Truthy(secs[get_section(secs, d)].translation)}
        |-> secs[get_section(secs, dep_id)].translation[1]]

\* lines 301-307 with translation_engine.py lines 180-188
Retried(sec, translation) ==
    [sec EXCEPT !.translation = Some(translation),
                !.translation_attempts = @ + 1]

\* str.split(sep) from index i on
RECURSIVE SplitLit(_, _, _)
SplitLitAt(t, lit, i, s) ==
    IF s = 0 THEN <<SubSeq(t, i, Len(t))>>
    ELSE <<SubSeq(t, i, s - 1)>> \o SplitLit(t, lit, s + Len(lit))

SplitLit(t, lit, i) == SplitLitAt(t, lit, i, FindLit(t, lit, i))

\* sep.join(parts)
RECURSIVE JoinLit(_, _)
JoinLit(parts, sep) ==
    IF parts = <<>> THEN <<>>
    ELSE IF Len(parts) = 1 THEN parts[1]
    ELSE parts[1] \o sep \o JoinLit(Tail(parts), sep)

\* str(n) for n >= 0
Digits == <<"0", "1", "2", "3", "4", "5", "6", "7", "8", "9">>
RECURSIVE Decimal(_)
Decimal(n) == IF n < 10 THEN <<Digits[n + 1]>> ELSE Decimal(n \div 10) \o <<Digits[(n % 10) + 1]>>

MissingLit == <<"M", "i", "s", "s", "i", "n", "g", " ", "i", "n", "l", "i", "n", "e", " ", "f", "o", "r", "m", "u", "l", "a", "s", ":", " ">>
ExtraLit == <<"E", "x", "t", "r", "a", " ", "i", "n", "l", "i", "n", "e", " ", "f", "o", "r", "m", "u", "l", "a", "s", ":", " ">>
MismatchLit == <<"D", "i", "s", "p", "l", "a", "y", " ", "f", "o", "r", "m", "u", "l", "a", "s", " ", "m", "i", "s", "m", "a", "t", "c", "h", ":">>
SourceLit == <<" ", " ", "S", "o", "u", "r", "c", "e", ":", " ">>
TargetLit == <<" ", " ", "T", "a", "r", "g", "e", "t", ":", " ">>
FormulasLit == <<" ", "f", "o", "r", "m", "u", "l", "a", "s">>
FormulaLit == <<" ", " ", "F", "o", "r", "m", "u", "l", "a", " ">>
DiffersLit == <<" ", "d", "i", "f", "f", "e", "r", "s">>
CountLit == <<" ", " ", "C", "o", "u", "n", "t", " ", "m", "i", "s", "m", "a", "t", "c", "h", ":", " ">>
VsLit == <<" ", "v", "s", " ">>

\* ', '.join(f'${f}$' for f in formulas)
InDollars(formulas) == [k \in 1..Len(formulas) |-> <<"$">> \o formulas[k] \o <<"$">>]

\* formula_validator.py lines 190-209: the text of one entry of diff_parts
PartText(p) ==
    CASE p.part = "Missing inline formulas" ->
            MissingLit \o JoinLit(InDollars(p.formulas), <<",", " ">>)
      [] p.part = "Extra inline formulas" ->
            ExtraLit \o JoinLit(InDollars(p.formulas), <<",", " ">>)
      [] p.part = "Display formulas mismatch" -> MismatchLit
      [] p.part = "Source" -> SourceLit \o Decimal(p.n) \o FormulasLit
      [] p.part = "Target" -> TargetLit \o Decimal(p.n) \o FormulasLit
      [] p.part = "Formula differs" -> FormulaLit \o Decimal(p.n) \o DiffersLit
      [] p.part = "Count mismatch" -> CountLit \o Decimal(p.n) \o VsLit \o Decimal(p.m)

\* formula_validator.py line 211: "; ".join(diff_parts)
DiffText(parts) == JoinLit([k \in 1..Len(parts) |-> PartText(parts[k])], <<";", " ">>)

\* formula_validator.py line 230: .replace('_', '\\_').replace('$', '\\$')
RECURSIVE Escaped(_)
Escaped(t) ==
    IF t = <<>> THEN <<>>
    ELSE (IF Head(t) \in {"_", "$"} THEN <<"\\", Head(t)>> ELSE <<Head(t)>>)
         \o Escaped(Tail(t))

problem_color == <<"r", "e", "d">>

\* formula_validator.py lines 230-233
mark_problematic_paragraph(paragraph, validation, color) ==
    <<"{", "\\", "c", "o", "l", "o", "r", "{">> \o color \o <<"}", " ">>
    \o paragraph
    \o <<"\\", "f", "o", "o", "t", "n", "o", "t", "e", "{">>
    \o Escaped(DiffText(validation.diff[1])) \o <<"}", "}">>

\* lines 329-332: the first validation of the list with the paragraph index
\* i, None if there is none
FirstWithIndex(records, i) ==
    IF \E k \in 1..Len(records) : records[k].paragraph_index = i
    THEN Some(records[Min({k \in 1..Len(records) :
                                  records[k].paragraph_index = i})])
    ELSE None

\* lines 334-342
MarkedWith(paragraph, found, color) ==
    IF found # None /\ ~(found[1].inline_match /\ found[1].display_match)
    THEN mark_problematic_paragraph(paragraph, found[1], color)
    ELSE paragraph

\* lines 323-344
MarkedParagraphs(paragraphs, records, color) ==
    [k \in 1..Len(paragraphs) |->
        MarkedWith(paragraphs[k], FirstWithIndex(records, k - 1), color)]

MarkedTranslation(translation, records, color) ==
    JoinLit(MarkedParagraphs(SplitLit(translation, <<"\n", "\n">>, 1),
                             records, color),
            <<"\n", "\n">>)

\* lines 320-344
MarkedSection(sec, records, color) ==
    IF ~Truthy(sec.translation) THEN sec
    ELSE [sec EXCEPT !.translation =
              Some(MarkedTranslation(sec.translation[1], records, color))]

\* line 197 and cyrillic_validator.py line 181
CyrillicLanguages == {"russian", "ukrainian", "belarusian"}

\* cyrillic_validator.py lines 181-192: is_valid
CyrillicValid(translation, source_language) ==
    \/ source_language \notin CyrillicLanguages
    \/ find_cyrillic_fragments(translation, 100) = <<>>

\* a call of fix_cyrillic: what it was given and whether it raised
FixCall(id, text, marked, fragment_texts, raised) ==
    [call |-> "fix_cyrillic", id |-> id, text |-> text, marked_text |-> marked,
     highlighted_fragments |-> fragment_texts, raised |-> raised]

FixCallFor(sec, raised) ==
    FixCall(sec.id, sec.translation[1], mark_cyrillic_fragments(sec.translation[1]),
            extract_highlighted_fragments(mark_cyrillic_fragments(sec.translation[1])),
            raised)

\* lines 456-457
Fixed(sec, fixed_text) ==
    [sec EXCEPT !.translation = Some(fixed_text), !.translation_attempts = @ + 1]

\* line 184
ValidateDocument ==
    /\ tpc = "translated"
    /\ tpc' = "validated"
    /\ run_problematic' \in validate_document(run_sections)
    /\ UNCHANGED <<config, run_sections, sorted_sections, run_i, translations,
                   llm_calls, retry_queue, exit_code>>
    /\ UNCHANGED <<sortVars, valVars, flatVars, parseVars, docVars, clientVars, cyrVars>>

\* line 188 is false
SkipRetry ==
    /\ tpc = "validated"
    /\ run_problematic = <<>>
    /\ tpc' = "checked"
    /\ UNCHANGED <<config, run_sections, sorted_sections, run_i, translations,
                   llm_calls, run_problematic, retry_queue, exit_code>>
    /\ UNCHANGED <<sortVars, valVars, flatVars, parseVars, docVars, clientVars, cyrVars>>

\* lines 188-190 and 274-285
GroupIssues ==
    /\ tpc = "validated"
    /\ run_problematic # <<>>
    /\ tpc' = "retry"
    /\ retry_queue' = GroupBySection(run_sections, run_problematic, <<>>)
    /\ UNCHANGED <<config, run_sections, sorted_sections, run_i, translations,
                   llm_calls, run_problematic, exit_code>>
    /\ UNCHANGED <<sortVars, valVars, flatVars, parseVars, docVars, clientVars, cyrVars>>

\* lines 288-291
RetrySkip ==
    /\ tpc = "retry"
    /\ retry_queue # <<>>
    /\ \E k \in {get_section(run_sections, Head(retry_queue))} :
          k = 0 \/ run_sections[k].translation_attempts >= config.max_retries
    /\ retry_queue' = Tail(retry_queue)
    /\ UNCHANGED <<tpc, config, run_sections, sorted_sections, run_i, translations,
                   llm_calls, run_problematic, exit_code>>
    /\ UNCHANGED <<sortVars, valVars, flatVars, parseVars, docVars, clientVars, cyrVars>>

\* lines 288-307: retry_translation returns
RetrySection ==
    /\ tpc = "retry"
    /\ retry_queue # <<>>
    /\ \E k \in {get_section(run_sections, Head(retry_queue))} :
          /\ k # 0
          /\ run_sections[k].translation_attempts < config.max_retries
          /\ \E reply \in LlmReplies :
                run_sections' = [run_sections EXCEPT ![k] = Retried(@, strip(reply))]
          /\ llm_calls' = Append(llm_calls,
                TranslateCall(run_sections[k].id,
                              RetryDepTranslations(run_sections, run_sections[k]),
                              TRUE, FALSE))
    /\ retry_queue' = Tail(retry_queue)
    /\ UNCHANGED <<tpc, config, sorted_sections, run_i, translations,
                   run_problematic, exit_code>>
    /\ UNCHANGED <<sortVars, valVars, flatVars, parseVars, docVars, clientVars, cyrVars>>

\* lines 301-305 and 246-256: retry_translation raises, translate returns
RetryRaises ==
    /\ tpc = "retry"
    /\ retry_queue # <<>>
    /\ \E k \in {get_section(run_sections, Head(retry_queue))} :
          /\ k # 0
          /\ run_sections[k].translation_attempts < config.max_retries
          /\ llm_calls' = Append(llm_calls,
                TranslateCall(run_sections[k].id,
                              RetryDepTranslations(run_sections, run_sections[k]),
                              TRUE, TRUE))
    /\ tpc' = "failed"
    /\ exit_code' = Some(2)
    /\ UNCHANGED <<config, run_sections, sorted_sections, run_i, translations,
                   run_problematic, retry_queue>>
    /\ UNCHANGED <<sortVars, valVars, flatVars, parseVars, docVars, clientVars, cyrVars>>

\* line 310
Revalidate ==
    /\ tpc = "retry"
    /\ retry_queue = <<>>
    /\ tpc' = "checked"
    /\ run_problematic' \in validate_document(run_sections)
    /\ UNCHANGED <<config, run_sections, sorted_sections, run_i, translations,
                   llm_calls, retry_queue, exit_code>>
    /\ UNCHANGED <<sortVars, valVars, flatVars, parseVars, docVars, clientVars, cyrVars>>

\* line 197: where translate goes on after line 193
AfterMarking(configuration) ==
    IF configuration.source_language \in CyrillicLanguages THEN "cyrillic" ELSE "write"

\* lines 192-193 and 320-344
MarkProblematic ==
    /\ tpc = "checked"
    /\ config.mark_problematic
    /\ run_problematic # <<>>
    /\ tpc' = AfterMarking(config)
    /\ run_sections' = [k \in 1..Len(run_sections) |->
                           MarkedSection(run_sections[k], run_problematic, problem_color)]
    /\ run_i' = 0
    /\ UNCHANGED <<config, sorted_sections, translations, llm_calls,
                   run_problematic, retry_queue, exit_code>>
    /\ UNCHANGED <<sortVars, valVars, flatVars, parseVars, docVars, clientVars, cyrVars>>

\* line 192 is false
SkipMarking ==
    /\ tpc = "checked"
    /\ ~(config.mark_problematic /\ run_problematic # <<>>)
    /\ tpc' = AfterMarking(config)
    /\ run_i' = 0
    /\ UNCHANGED <<config, run_sections, sorted_sections, translations, llm_calls,
                   run_problematic, retry_queue, exit_code>>
    /\ UNCHANGED <<sortVars, valVars, flatVars, parseVars, docVars, clientVars, cyrVars>>

\* lines 417-431: a Section without translation or without Cyrillic text
CyrillicPass ==
    /\ tpc = "cyrillic"
    /\ run_i < Len(run_sections)
    /\ \/ ~Truthy(run_sections[run_i + 1].translation)
       \/ CyrillicValid(run_sections[run_i + 1].translation[1], config.source_language)
    /\ run_i' = run_i + 1
    /\ UNCHANGED <<tpc, config, run_sections, sorted_sections, translations, llm_calls,
                   run_problematic, retry_queue, exit_code>>
    /\ UNCHANGED <<sortVars, valVars, flatVars, parseVars, docVars, clientVars, cyrVars>>

\* lines 431-471: fix_cyrillic returns
CyrillicFix ==
    /\ tpc = "cyrillic"
    /\ run_i < Len(run_sections)
    /\ Truthy(run_sections[run_i + 1].translation)
    /\ ~CyrillicValid(run_sections[run_i + 1].translation[1], config.source_language)
    /\ \E reply \in LlmReplies :
          run_sections' = [run_sections EXCEPT ![run_i + 1] = Fixed(@, strip(reply))]
    /\ llm_calls' = Append(llm_calls, FixCallFor(run_sections[run_i + 1], FALSE))
    /\ run_i' = run_i + 1
    /\ UNCHANGED <<tpc, config, sorted_sections, translations,
                   run_problematic, retry_queue, exit_code>>
    /\ UNCHANGED <<sortVars, valVars, flatVars, parseVars, docVars, clientVars, cyrVars>>

\* lines 431-474: fix_cyrillic raises
CyrillicFixFails ==
    /\ tpc = "cyrillic"
    /\ run_i < Len(run_sections)
    /\ Truthy(run_sections[run_i + 1].translation)
    /\ ~CyrillicValid(run_sections[run_i + 1].translation[1], config.source_language)
    /\ llm_calls' = Append(llm_calls, FixCallFor(run_sections[run_i + 1], TRUE))
    /\ run_i' = run_i + 1
    /\ UNCHANGED <<tpc, config, run_sections, sorted_sections, translations,
                   run_problematic, retry_queue, exit_code>>
    /\ UNCHANGED <<sortVars, valVars, flatVars, parseVars, docVars, clientVars, cyrVars>>

\* line 476
ReturnFixedCount ==
    /\ tpc = "cyrillic"
    /\ run_i = Len(run_sections)
    /\ tpc' = "write"
    /\ UNCHANGED <<config, run_sections, sorted_sections, run_i, translations,
                   llm_calls, run_problematic, retry_queue, exit_code>>
    /\ UNCHANGED <<sortVars, valVars, flatVars, parseVars, docVars, clientVars, cyrVars>>

\* lines 205-244: the document and the report are written
WriteOutput ==
    /\ tpc = "write"
    /\ tpc' = "done"
    /\ exit_code' = Some(IF run_problematic = <<>> THEN 0 ELSE 1)
    /\ UNCHANGED <<config, run_sections, sorted_sections, run_i, translations,
                   llm_calls, run_problematic, retry_queue>>
    /\ UNCHANGED <<sortVars, valVars, flatVars, parseVars, docVars, clientVars, cyrVars>>

\* lines 205-256: writing the document or the report raises
WriteRaises ==
    /\ tpc = "write"
    /\ tpc' = "failed"
    /\ exit_code' = Some(2)
    /\ UNCHANGED <<config, run_sections, sorted_sections, run_i, translations,
                   llm_calls, run_problematic, retry_queue>>
    /\ UNCHANGED <<sortVars, valVars, flatVars, parseVars, docVars, clientVars, cyrVars>>

\* the configurations of a run
Configs ==
    {Config(retries, mark, language) :
        retries \in 0..MaxRetries, mark \in BOOLEAN, language \in {"russian", "english"}}

\* translate is at phase 4: the analysis stored no dependency
InitRun ==
    /\ SortIdle
    /\ ValIdle
    /\ FlatIdle
    /\ ParseIdle
    /\ DocIdle
    /\ ClientIdle
    /\ CyrIdle
    /\ \E n \in 0..MaxRunSections : \E configuration \in Configs :
          RunStart(RunSections(n, {}), configuration)

NextRun ==
    \/ TranslateSection
    \/ TranslateFails
    \/ ReturnDocument
    \/ ValidateDocument
    \/ SkipRetry
    \/ GroupIssues
    \/ RetrySkip
    \/ RetrySection
    \/ RetryRaises
    \/ Revalidate
    \/ MarkProblematic
    \/ SkipMarking
    \/ CyrillicPass
    \/ CyrillicFix
    \/ CyrillicFixFails
    \/ ReturnFixedCount
    \/ WriteOutput
    \/ WriteRaises

SpecRun == InitRun /\ [][NextRun]_vars

(***************************************************************************)
(* Properties of translate_document                                        *)
(***************************************************************************)
\* the Section a call of translate_section was made for
CalledSection(call) == run_sections[get_section(run_sections, call.id)]

\* every Section the called Section depends on had been translated when the
\* call was made, and its translation was handed over
DependenciesHandedOver(call) ==
    \A d \in CalledSection(call).dependencies \cap DocIds(run_sections) :
        /\ d \in DOMAIN call.dependency_translations
        /\ call.dependency_translations[d] = translations[d]

\* C22: for an acyclic dependency relation, processed in the order
\* topological_sort returned, every call of translate_section is handed the
\* translation of every Section the translated Section depends on.
C22_DependenciesTranslatedFirst ==
    Acyclic(run_sections) =>
        \A k \in 1..Len(llm_calls) :
            llm_calls[k].call = "translate_section" => DependenciesHandedOver(llm_calls[k])

\* it is so when every dependency id names a Section of the document
C22_WithoutStrayIds ==
    (/\ Acyclic(run_sections)
     /\ \A i \in 1..Len(run_sections) :
           run_sections[i].dependencies \subseteq DocIds(run_sections)) =>
        \A k \in 1..Len(llm_calls) :
            llm_calls[k].call = "translate_section" => DependenciesHandedOver(llm_calls[k])

\* the Section fell back to its source and was not counted as translated
KeptSource(sec) ==
    /\ sec.translation = Some(sec.content)
    /\ sec.translation_attempts = 0

\* validate_document gets no record from the Section
NoRecord(sec) ==
    Truthy(sec.translation) =>
        \A run \in validate_section(sec.content, sec.translation[1]) :
            run.problematic = <<>>

\* C25: a call of translate_section that raised leaves its Section with its
\* own content as translation and translation_attempts unchanged, and such
\* a Section gives validate_document no record; the loop goes on: when
\* translate_document returns, every Section of the order has been handed
\* to translate_section, in order, and has a translation that is set.
C25_FailureFallsBack ==
    /\ Len(llm_calls) = run_i
    /\ \A k \in 1..Len(llm_calls) :
          /\ llm_calls[k].id = sorted_sections[k]
          /\ CalledSection(llm_calls[k]).translation # None
          /\ llm_calls[k].raised =>
                /\ KeptSource(CalledSection(llm_calls[k]))
                /\ NoRecord(CalledSection(llm_calls[k]))
    /\ tpc = "translated" =>
          /\ run_i = Len(sorted_sections)
          /\ \A k \in 1..Len(sorted_sections) :
                run_sections[get_section(run_sections, sorted_sections[k])].translation # None

\* the first call raised on a Section with a formula, the second returned
C25_Witness ==
    /\ tpc = "translated"
    /\ Len(llm_calls) = 2
    /\ llm_calls[1].raised
    /\ ~llm_calls[2].raised
    /\ Truthy(CalledSection(llm_calls[1]).translation)
    /\ CalledSection(llm_calls[2]).translation_attempts = 1
    /\ CalledSection(llm_calls[2]).translation # Some(CalledSection(llm_calls[2]).content)

(***************************************************************************)
(* Properties of translate                                                 *)
(***************************************************************************)
\* the calls of translate_section in strict mode made for the Section
StrictCalls(sec) ==
    {k \in 1..Len(llm_calls) :
        /\ llm_calls[k].call = "translate_section"
        /\ llm_calls[k].strict_formulas
        /\ llm_calls[k].id = sec.id}

\* the validation of phase 5 got a record from the Section: its translation
\* was then the one translate_document had stored
OwnsRecord(sec) ==
    /\ sec.id \in DOMAIN translations
    /\ translations[sec.id] # <<>>
    /\ \E run \in validate_section(sec.content, translations[sec.id]) :
          run.problematic # <<>>

\* translation_attempts of the Section when _retry_problematic was entered
AttemptsBefore(sec) == sec.translation_attempts - Cardinality(StrictCalls(sec))

\* C26: when _retry_problematic has returned, a Section has been translated
\* again, once and in strict mode, if it owned a record of the validation
\* and its translation_attempts was below max_retries, and has not been
\* translated again otherwise.
C26_RetriesOwners ==
    tpc = "checked" =>
        \A i \in 1..Len(run_sections) :
            Cardinality(StrictCalls(run_sections[i])) =
                IF /\ OwnsRecord(run_sections[i])
                   /\ AttemptsBefore(run_sections[i]) < config.max_retries
                THEN 1 ELSE 0

\* no Section is translated again more than once, and none is when the
\* validation returned no record
C26_AtMostOnce ==
    /\ \A i \in 1..Len(run_sections) : Cardinality(StrictCalls(run_sections[i])) <= 1
    /\ (\A i \in 1..Len(run_sections) : ~OwnsRecord(run_sections[i])) =>
          \A i \in 1..Len(run_sections) : StrictCalls(run_sections[i]) = {}

\* C27: exit code 0 is returned only when validate_document finds no record
\* in the document that was written; exit code 1 is returned exactly when
\* the last validation left a record, exit code 2 exactly when an exception
\* escaped a phase.
C27_ExitCodeTellsValidity ==
    /\ exit_code = Some(0) => validate_document(run_sections) = {<<>>}
    /\ exit_code = Some(1) <=> (tpc = "done" /\ run_problematic # <<>>)
    /\ exit_code = Some(2) <=> tpc = "failed"

\* the exit code is 1 exactly when the last validation left a record and 2
\* exactly when an exception escaped
C27_ExitCodesOneAndTwo ==
    /\ exit_code = Some(1) <=> (tpc = "done" /\ run_problematic # <<>>)
    /\ exit_code = Some(2) <=> tpc = "failed"
    /\ exit_code = Some(0) <=> (tpc = "done" /\ run_problematic = <<>>)

\* exit code 0 does tell that the document passes when no Cyrillic text was
\* fixed after the last validation
C27_ValidWithoutCyrillicFix ==
    (/\ exit_code = Some(0)
     /\ \A k \in 1..Len(llm_calls) : llm_calls[k].call # "fix_cyrillic") =>
        validate_document(run_sections) = {<<>>}

\* C28: translation_attempts of every Section is at most max_retries at
\* every point of a run.
C28_AttemptsBounded ==
    tpc # "idle" =>
        \A i \in 1..Len(run_sections) :
            run_sections[i].translation_attempts <= config.max_retries

\* translate_document and the strict retry alone keep the counter at or
\* below a max_retries of 1 or more
C28_BoundedBeforeCyrillicFix ==
    (tpc # "idle" /\ config.max_retries >= 1 /\ \A k \in 1..Len(llm_calls) : llm_calls[k].call # "fix_cyrillic") =>
        \A i \in 1..Len(run_sections) :
            run_sections[i].translation_attempts <= config.max_retries

\* _mark_problematic_paragraphs has just run
Marking == tpc = "checked" /\ tpc' # "checked" /\ run_sections' # run_sections

\* the paragraphs of the translation of the i-th Section before the marking
ParagraphsBefore(i) == SplitLit(run_sections[i].translation[1], <<"\n", "\n">>, 1)

\* the validation gets, from the i-th Section alone, a record for the
\* paragraph index p
RecordFor(i, p) ==
    \E run \in validate_section(run_sections[i].content, run_sections[i].translation[1]) :
        \E k \in 1..Len(run.problematic) : run.problematic[k].paragraph_index = p

\* C29: _mark_problematic_paragraphs changes a paragraph of a Section's
\* translation only if the validation of that Section gave a record for the
\* index of that paragraph; the translation of a Section without a record
\* stays as it was.
C29_MarksOnlyOffenders ==
    [][Marking =>
          \A i \in 1..Len(run_sections) :
              run_sections'[i].translation # run_sections[i].translation =>
                  \E p \in 0..(Len(ParagraphsBefore(i)) - 1) : RecordFor(i, p)]_vars

\* a translation is changed only if some record of the document, of
\* whatever Section, carries the index of one of its paragraphs
C29_MarksByIndexAlone ==
    [][Marking =>
          \A i \in 1..Len(run_sections) :
              run_sections'[i].translation # run_sections[i].translation =>
                  \E k \in 1..Len(run_problematic) :
                      run_problematic[k].paragraph_index < Len(ParagraphsBefore(i))]_vars

====
